---- MODULE Spec2Model ----
(***************************************************************************)
(* binsize: a model of the executable introspection core.                  *)
(*                                                                         *)
(*   SpecExe   exe::parse (src/src/exe.rs): symbol table -> ExecutableInfo *)
(*   SpecLink  link::MemoryRegion::from_file (src/src/link.rs), one step   *)
(*             per line of the linker script                               *)
(*   SpecDecl  MemoryRegion::parse_value and the parse of one region       *)
(*             declaration, as pure functions over bounded inputs          *)
(*   SpecUse   MemoryRegion::use_segments_data (src/src/link.rs)           *)
(*   SpecName  demangle and crate_name_from_demangled (src/src/demangle.rs)*)
(*             beside demangle and demangle_crate of src/src/exe.rs        *)
(*   SpecRun   Binsize::run up to the first table (src/src/main.rs):       *)
(*             parse_config, parse_args with src/src/args.rs, and the      *)
(*             patterns of src/src/output.rs                               *)
(*   SpecDump  Binsize::run from load_exe on: dump_symbols, dump_crates,   *)
(*             dump_sections, dump_segments with src/src/table.rs          *)
(*                                                                         *)
(* Strings are sequences of one-character strings; usize is a machine word *)
(* of UsizeBits bits.                                                      *)
(***************************************************************************)
EXTENDS Integers, Sequences, FiniteSets, TLC

VARIABLES
    \* exe::parse
    exePc,      \* "call" before exe::parse(path), "returned" after
    file,       \* what lies at `path`: its state and, for an object file, its tables
    exe,        \* the outcome of exe::parse
    \* MemoryRegion::from_file
    ldPc,       \* "read", "lines", "returned"
    ldFile,     \* the linker script's text, or Unreadable
    build,      \* "debug" (overflow checks on) or "release" (wrapping arithmetic)
    lines,      \* s.split("\n")
    lineNo,     \* number of lines the for loop has consumed
    vars,       \* the HashMap name -> value
    regions,    \* the Vec<MemoryRegion> built so far
    ldResult,   \* the outcome of from_file
    \* parse_value / one declaration
    dcPc, dcVars, dcA, dcB, dcBuild, dcValue, dcFwd, dcSwp,
    \* MemoryRegion::use_segments_data
    usPc,       \* "call" before the call, "returned" after it, "again" after a second
    usBuild,    \* "debug" or "release"
    usRegions,  \* the regions from_file returned
    usSegments, \* the load segments of the executable
    usResult,   \* the regions as the call leaves them, or its panic
    \* demangle.rs, and exe.rs demangle / demangle_crate
    nmPc,       \* "input", "demangled", "guessed", "done"
    nmBuild,    \* "debug" or "release"
    nmRaw,      \* a raw symbol name
    nmText,     \* a demangled name
    nmSymbol,   \* demangle::demangle(nmRaw)
    nmCrate,    \* demangle::crate_name_from_demangled(nmText)
    nmExe,      \* the name and crate_name exe::parse stores for nmRaw
    \* Binsize::run up to the first table
    rnPc,       \* "start", "config", "args", "ready", "exited", "panicked"
    rnConfig,   \* .cargo/binsize.toml
    rnArgv,     \* the command line
    rnParsed,   \* the arguments argp.parse returned
    rnDone,     \* how many of them the loop of parse_args has handled
    rnApp,      \* the settings of the Binsize value
    rnBefore,   \* the Output before the last pattern that was applied
    rnPattern,  \* that pattern
    \* Binsize::run from load_exe on: the tables
    dpPc,       \* the next table: "symbols", "crates", "sections", "segments"; "done", "panicked"
    dpBuild,    \* "debug" or "release"
    dpOutput,   \* self.output
    dpFilter,   \* self.filter
    dpSort,     \* self.symbols_sorting_order
    dpLd,       \* self.ld_file and the regions from_file reads from it
    dpExe,      \* self.exe
    dpWidth,    \* util::term_width()
    dpTable,    \* the table the last step built, and whether it panicked
    \* table.rs: Table::new and push_row
    tbPc,       \* "new" before Table::new, "ready" after; "once", "twice" after the pushes
    tbBuild,    \* "debug" or "release"
    tbMax,      \* the max_width given to Table::new
    tbHeader,   \* the header row given to Table::new
    tbTable,    \* the Table
    tbRow,      \* the row last given to push_row
    tbResult    \* what that push_row did: "Ok", "Err" or "Panic"

exeVars == <<exePc, file, exe>>
linkVars == <<ldPc, ldFile, build, lines, lineNo, vars, regions, ldResult>>
declVars == <<dcPc, dcVars, dcA, dcB, dcBuild, dcValue, dcFwd, dcSwp>>
useVars == <<usPc, usBuild, usRegions, usSegments, usResult>>
nameVars == <<nmPc, nmBuild, nmRaw, nmText, nmSymbol, nmCrate, nmExe>>
runVars == <<rnPc, rnConfig, rnArgv, rnParsed, rnDone, rnApp, rnBefore, rnPattern>>
dumpVars == <<dpPc, dpBuild, dpOutput, dpFilter, dpSort, dpLd, dpExe, dpWidth, dpTable>>
tableVars == <<tbPc, tbBuild, tbMax, tbHeader, tbTable, tbRow, tbResult>>
allVars == <<exeVars, linkVars, declVars, useVars, nameVars, runVars, dumpVars, tableVars>>

\* the variables of the operations other than the one named
offExe == <<linkVars, declVars, useVars, nameVars, runVars, dumpVars, tableVars>>
offLink == <<exeVars, declVars, useVars, nameVars, runVars, dumpVars, tableVars>>
offDecl == <<exeVars, linkVars, useVars, nameVars, runVars, dumpVars, tableVars>>
offUse == <<exeVars, linkVars, declVars, nameVars, runVars, dumpVars, tableVars>>
offName == <<exeVars, linkVars, declVars, useVars, runVars, dumpVars, tableVars>>
offRun == <<exeVars, linkVars, declVars, useVars, nameVars, dumpVars, tableVars>>
offDump == <<exeVars, linkVars, declVars, useVars, nameVars, runVars, tableVars>>
offTable == <<exeVars, linkVars, declVars, useVars, nameVars, runVars, dumpVars>>

(***************************************************************************)
(* Machine words                                                           *)
(***************************************************************************)
UsizeBits == 30
Modulus   == 2 ^ UsizeBits
UsizeMax  == Modulus - 1

Builds == {"debug", "release"}

\* a - b on usize: debug builds panic on overflow, release builds wrap
SubUsize(a, b, bld) ==
    IF a >= b THEN [panic |-> FALSE, val |-> a - b]
    ELSE IF bld = "debug" THEN [panic |-> TRUE, val |-> 0]
    ELSE [panic |-> FALSE, val |-> a - b + Modulus]

Min(S) == CHOOSE x \in S : \A y \in S : x <= y

(***************************************************************************)
(* link::MemoryRegion: values, regions and the two line patterns           *)
(***************************************************************************)
Digits    == {"0", "1", "2", "3", "4", "5", "6", "7", "8", "9"}
HexLower  == {"a", "b", "c", "d", "e", "f"}
HexUpper  == {"A", "B", "C", "D", "E", "F"}
Lower     == HexLower \cup {"g", "h", "i", "j", "k", "l", "m", "n", "o", "p", "q", "r",
                            "s", "t", "u", "v", "w", "x", "y", "z"}
Upper     == HexUpper \cup {"G", "H", "I", "J", "K", "L", "M", "N", "O", "P", "Q", "R",
                            "S", "T", "U", "V", "W", "X", "Y", "Z"}
\* the class \w
WordChars == Digits \cup Lower \cup Upper \cup {"_"}
\* the class \s, as far as a line can hold it
Spaces    == {" ", "\t", "\r"}

HexDigitChars ==
    <<"0", "1", "2", "3", "4", "5", "6", "7", "8", "9", "a", "b", "c", "d", "e", "f">>

LowerCase(c) ==
    IF c \in HexUpper
    THEN HexDigitChars[10 + CHOOSE d \in 1..6 : <<"A", "B", "C", "D", "E", "F">>[d] = c]
    ELSE c

InRadix(v, radix) == IF v < radix THEN v ELSE -1

\* char::to_digit(radix); -1 for None
DigitValue(c, radix) ==
    IF c \in Digits \cup HexLower \cup HexUpper
    THEN InRadix((CHOOSE d \in 1..16 : HexDigitChars[d] = LowerCase(c)) - 1, radix)
    ELSE -1

RECURSIVE ParseDigits(_, _, _, _)
RECURSIVE Accumulate(_, _, _, _, _)
\* the digit loop of from_str_radix from position k on, acc the value so far:
\* -1 for InvalidDigit and PosOverflow
ParseDigits(s, k, radix, acc) ==
    IF k > Len(s) THEN acc
    ELSE Accumulate(s, k, radix, acc, DigitValue(s[k], radix))

\* checked acc * radix + d for the digit d at position k
Accumulate(s, k, radix, acc, d) ==
    IF d = -1 THEN -1
    ELSE IF acc > (UsizeMax - d) \div radix THEN -1
    ELSE ParseDigits(s, k + 1, radix, acc * radix + d)

\* usize::from_str_radix(s, radix): the value, or -1 for Err. An empty string is
\* an error, one leading `+` is accepted
FromStrRadix(s, radix) ==
    IF s = <<>> \/ s = <<"+">> THEN -1
    ELSE ParseDigits(s, IF s[1] = "+" THEN 2 ELSE 1, radix, 0)

\* a * k on usize, k a power of two: debug builds panic on overflow, release
\* builds wrap
MulUsize(a, k, bld) ==
    IF a <= UsizeMax \div k THEN [panic |-> FALSE, val |-> a * k]
    ELSE IF bld = "debug" THEN [panic |-> TRUE, val |-> 0]
    ELSE [panic |-> FALSE, val |-> (a % (Modulus \div k)) * k]

StartsWith(s, p) == Len(s) >= Len(p) /\ SubSeq(s, 1, Len(p)) = p
EndsWith(s, p)   == Len(s) >= Len(p) /\ SubSeq(s, Len(s) - Len(p) + 1, Len(s)) = p
StripPrefix(s, p) == SubSeq(s, Len(p) + 1, Len(s))
StripSuffix(s, p) == SubSeq(s, 1, Len(s) - Len(p))

Ok(v)       == [tag |-> "Ok", val |-> v]
Err(e)      == [tag |-> "Err", val |-> e]
PanicResult == [tag |-> "Panic", val |-> 0]

\* Ok(from_str_radix(..)?)
Parsed(n) == IF n = -1 THEN Err("ParseIntError") ELSE Ok(n)

Product(m) == IF m.panic THEN PanicResult ELSE Ok(m.val)

\* r * k for r = Ok(n); an error or a panic so far stays
Times(r, k, bld) == IF r.tag = "Ok" THEN Product(MulUsize(r.val, k, bld)) ELSE r

DecimalOrDefault(n, vs, val) ==
    IF n # -1 THEN Ok(n)
    ELSE IF val \in DOMAIN vs THEN Ok(vs[val])
    ELSE Ok(0)

\* the last two cases of parse_value: val.parse() gave n
DecimalOrVariable(n, vs, val) ==
    IF n # -1 THEN Ok(n)
    ELSE IF val \in DOMAIN vs THEN Ok(vs[val])
    ELSE Err("Can't find value for variable")

KiloAs1000(r, bld) == Times(r, 1000, bld)

\* from_str_radix(..)? * 1024
Kilo(r, bld) == Times(r, 1024, bld)

\* fn parse_value(vars, val)
ParseValue(vs, val, bld) ==
    IF StartsWith(val, <<"0", "x">>)
    THEN Parsed(FromStrRadix(StripPrefix(val, <<"0", "x">>), 16))
    ELSE IF EndsWith(val, <<"K">>)
    THEN Kilo(Parsed(FromStrRadix(StripSuffix(val, <<"K">>), 10)), bld)
    ELSE IF EndsWith(val, <<"M">>)
    THEN Kilo(Kilo(Parsed(FromStrRadix(StripSuffix(val, <<"M">>), 10)), bld), bld)
    ELSE DecimalOrVariable(FromStrRadix(val, 10), vs, val)

InsertKeepFirst(vs, name, val) ==
    [n \in DOMAIN vs \cup {name} |-> IF n \in DOMAIN vs THEN vs[n] ELSE val]

\* vars.insert(name, val)
Insert(vs, name, val) ==
    [n \in DOMAIN vs \cup {name} |-> IF n = name THEN val ELSE vs[n]]

NoVars == [n \in {} |-> 0]

Inserted(vs, name, v) == IF v.tag = "Ok" THEN Ok(Insert(vs, name, v.val)) ELSE v

\* fn parse_var(vars, name, val): Ok(the new table), or the error
ParseVar(vs, name, val, bld) == Inserted(vs, name, ParseValue(vs, val, bld))

\* MemoryRegion::new(name, origin, length)
NewRegion(name, origin, length) ==
    [name |-> name, origin |-> origin, length |-> length, used |-> 0,
     used_percentage |-> 0]

RECURSIVE RunEnd(_, _, _)
\* position after the longest run of class `cls` that starts at p
RunEnd(l, p, cls) ==
    IF p > Len(l) THEN p
    ELSE IF l[p] \notin cls THEN p
    ELSE RunEnd(l, p + 1, cls)

NoMatch == [matched |-> FALSE, groups |-> <<>>]

\* F applied to the value of v, v evaluated once
Then(F(_), v) == CHOOSE r \in {F(x) : x \in {v}} : TRUE

\* the patterns, item by item: \s* (greedy or lazy), a captured (\w+), or one
\* literal character; both patterns start with `^`
MEM_REG_PATTERN ==
    <<"\\s*", "(\\w+)", "\\s*", ":", "\\s*", "(\\w+)", "\\s*", "=", "\\s*", "(\\w+)", ",",
      "\\s*", "(\\w+)", "\\s*", "=", "\\s*", "(\\w+)">>

VARIABLE_PATTERN ==
    <<"\\s*", "(\\w+)", "\\s*?", "=", "\\s*", "(\\w+)", "\\s*", ";">>

RECURSIVE MatchAt(_, _, _, _)
\* items k.. of pat matched at position p of l: the groups they capture. The
\* classes \s and \w and the literals are pairwise disjoint, so each run can
\* only be matched whole
MatchAt(pat, k, l, p) ==
    IF k > Len(pat) THEN [matched |-> TRUE, groups |-> <<>>]
    ELSE IF pat[k] \in {"\\s*", "\\s*?"}
    THEN LET Rest(q) == MatchAt(pat, k + 1, l, q)
         IN  Then(Rest, RunEnd(l, p, Spaces))
    ELSE IF pat[k] = "(\\w+)"
    THEN LET Rest(q) ==
                 IF q = p THEN NoMatch
                 ELSE LET r == MatchAt(pat, k + 1, l, q)
                      IN  IF r.matched
                          THEN [matched |-> TRUE,
                                groups  |-> <<SubSeq(l, p, q - 1)>> \o r.groups]
                          ELSE NoMatch
         IN  Then(Rest, RunEnd(l, p, WordChars))
    ELSE IF p <= Len(l) /\ l[p] = pat[k]
    THEN LET Rest(q) == MatchAt(pat, k + 1, l, q)
         IN  Then(Rest, p + 1)
    ELSE NoMatch

\* the pattern without its `^`: the leftmost match anywhere in the line
MemRegAnywhere(l) ==
    LET starts == {p \in 1..Len(l) : MatchAt(MEM_REG_PATTERN, 1, l, p).matched}
    IN  IF starts = {} THEN NoMatch ELSE MatchAt(MEM_REG_PATTERN, 1, l, Min(starts))

\* MEM_REG_PATTERN.captures(line)
MemRegCaptures(l) == MatchAt(MEM_REG_PATTERN, 1, l, 1)

\* VARIABLE_PATTERN.captures(line)
VariableCaptures(l) == MatchAt(VARIABLE_PATTERN, 1, l, 1)

RegionSoFar(origin, length) == [tag |-> "Ok", origin |-> origin, length |-> length]

NoRegion(tag) == [tag |-> tag, origin |-> 0, length |-> 0]

\* origin = parse_value(..)? or length = parse_value(..)?, by the keyword
Assigned(key, acc, v) ==
    IF v.tag # "Ok" THEN NoRegion(v.tag)
    ELSE IF key = <<"O", "R", "I", "G", "I", "N">> THEN RegionSoFar(v.val, acc.length)
    ELSE RegionSoFar(acc.origin, v.val)

\* the same by the position of the group: origin first, length second
AssignedByPosition(i, acc, v) ==
    IF v.tag # "Ok" THEN NoRegion(v.tag)
    ELSE IF i = 2 THEN RegionSoFar(v.val, acc.length)
    ELSE RegionSoFar(acc.origin, v.val)

RegionSlotByPosition(g, i, acc, vs, bld) ==
    IF acc.tag # "Ok" THEN acc
    ELSE AssignedByPosition(i, acc, ParseValue(vs, g[i + 1], bld))

\* one turn of `for i in [2, 4]` of parse_region, on the origin and length so
\* far; an error so far has already returned
RegionSlot(g, i, acc, vs, bld) ==
    IF acc.tag # "Ok" THEN acc
    ELSE IF g[i] \in {<<"O", "R", "I", "G", "I", "N">>, <<"L", "E", "N", "G", "T", "H">>}
    THEN Assigned(g[i], acc, ParseValue(vs, g[i + 1], bld))
    ELSE NoRegion("Err")

RegionResult(name, acc) ==
    IF acc.tag = "Ok" THEN Ok(NewRegion(name, acc.origin, acc.length))
    ELSE [tag |-> acc.tag, val |-> 0]

\* fn parse_region(cap, vars): Ok(region), Err or Panic
ParseRegion(g, vs, bld) ==
    RegionResult(g[1], RegionSlot(g, 4, RegionSlot(g, 2, RegionSoFar(0, 0), vs, bld),
                                  vs, bld))

RECURSIVE SplitLines(_)
\* s.split("\n")
SplitLines(s) ==
    IF \E k \in 1..Len(s) : s[k] = "\n"
    THEN LET k == Min({j \in 1..Len(s) : s[j] = "\n"})
         IN  <<SubSeq(s, 1, k - 1)>> \o SplitLines(SubSeq(s, k + 1, Len(s)))
    ELSE <<s>>

\* if let Some(cap) = var_re.captures(line) { parse_var(..)? }
VarLine(vs, vc, bld) ==
    IF vc.matched THEN ParseVar(vs, vc.groups[1], vc.groups[2], bld) ELSE Ok(vs)

PushedInFront(vs, regs, pr) ==
    IF pr.tag = "Ok" THEN [tag |-> "Ok", vars |-> vs, regions |-> <<pr.val>> \o regs]
    ELSE [tag |-> pr.tag, vars |-> vs, regions |-> regs]

\* regions.push(parse_region(..)?)
Pushed(vs, regs, pr) ==
    IF pr.tag = "Ok" THEN [tag |-> "Ok", vars |-> vs, regions |-> Append(regs, pr.val)]
    ELSE [tag |-> pr.tag, vars |-> vs, regions |-> regs]

SkipErr(r, vs, regs) == IF r.tag = "Err" THEN [tag |-> "Ok", vars |-> vs, regions |-> regs] ELSE r

RegionLineSkipping(pv, regs, rc, bld) ==
    IF pv.tag # "Ok" THEN [tag |-> pv.tag, vars |-> NoVars, regions |-> regs]
    ELSE IF ~rc.matched THEN [tag |-> "Ok", vars |-> pv.val, regions |-> regs]
    ELSE SkipErr(Pushed(pv.val, regs, ParseRegion(rc.groups, pv.val, bld)), pv.val, regs)

\* if let Some(cap) = mem_reg_re.captures(line) { regions.push(parse_region(..)?) }
RegionLine(pv, regs, rc, bld) ==
    IF pv.tag # "Ok" THEN [tag |-> pv.tag, vars |-> NoVars, regions |-> regs]
    ELSE IF ~rc.matched THEN [tag |-> "Ok", vars |-> pv.val, regions |-> regs]
    ELSE Pushed(pv.val, regs, ParseRegion(rc.groups, pv.val, bld))

\* the body of `for line in s.split("\n")`, c the captures of the two patterns
\* on the line: the variable pattern, then the region pattern, each on the
\* same line; `?` returns the first error
Step(vs, regs, c, bld) == RegionLine(VarLine(vs, c.var, bld), regs, c.reg, bld)

(***************************************************************************)
(* Linker scripts: words, lines and the scripts a run may read             *)
(***************************************************************************)
wORIGIN == <<"O", "R", "I", "G", "I", "N">>
wLENGTH == <<"L", "E", "N", "G", "T", "H">>
wSTART == <<"S", "T", "A", "R", "T">>
wMEMORY == <<"M", "E", "M", "O", "R", "Y">>
wBOOTLOADER == <<"B", "O", "O", "T", "L", "O", "A", "D", "E", "R">>
wAPPLICATION == <<"A", "P", "P", "L", "I", "C", "A", "T", "I", "O", "N">>
wRAM == <<"R", "A", "M">>
wFLASH == <<"F", "L", "A", "S", "H">>
wOTHER == <<"O", "T", "H", "E", "R">>
w__boot_size == <<"_", "_", "b", "o", "o", "t", "_", "s", "i", "z", "e">>
w__slot_size == <<"_", "_", "s", "l", "o", "t", "_", "s", "i", "z", "e">>
w__ROM == <<"_", "_", "R", "O", "M">>
wSIZE_K == <<"S", "I", "Z", "E", "_", "K">>
w0xv == <<"0", "x", "v">>
w0x10000 == <<"0", "x", "1", "0", "0", "0", "0">>
w0x8000000 == <<"0", "x", "8", "0", "0", "0", "0", "0", "0">>
w0x8010000 == <<"0", "x", "8", "0", "1", "0", "0", "0", "0">>
w0x20000000 == <<"0", "x", "2", "0", "0", "0", "0", "0", "0", "0">>
w0x1000 == <<"0", "x", "1", "0", "0", "0">>
w0x1F == <<"0", "x", "1", "F">>
w0xZZ == <<"0", "x", "Z", "Z">>
w0x == <<"0", "x">>
w0x40000000 == <<"0", "x", "4", "0", "0", "0", "0", "0", "0", "0">>
w0 == <<"0">>
w12 == <<"1", "2">>
w007 == <<"0", "0", "7">>
w1073741824 == <<"1", "0", "7", "3", "7", "4", "1", "8", "2", "4">>
w12ab == <<"1", "2", "a", "b">>
w8K == <<"8", "K">>
w10K == <<"1", "0", "K">>
w32K == <<"3", "2", "K">>
w1048576K == <<"1", "0", "4", "8", "5", "7", "6", "K">>
w12aK == <<"1", "2", "a", "K">>
wK == <<"K">>
w1M == <<"1", "M">>
w1024M == <<"1", "0", "2", "4", "M">>
w1048576M == <<"1", "0", "4", "8", "5", "7", "6", "M">>

\* `name : k1 = v1, k2 = v2`
Decl(name, k1, v1, k2, v2) ==
    name \o <<" ", ":", " ">> \o k1 \o <<" ", "=", " ">> \o v1 \o <<",", " ">>
         \o k2 \o <<" ", "=", " ">> \o v2

\* `name = v;`
Assign(name, v) == name \o <<" ", "=", " ">> \o v \o <<";">>

\* `__boot_size = 0x10000;`
A_boot   == Assign(w__boot_size, w0x10000)
\* `__boot_size = 0x1000;`
A_boot2  == Assign(w__boot_size, w0x1000)
\* `__ROM = 0x1000;`
A_rom    == Assign(w__ROM, w0x1000)
\* `__slot_size = __boot_size;`
A_slot   == Assign(w__slot_size, w__boot_size)
\* `MEMORY {`
M_open   == wMEMORY \o <<" ", "{">>
\* `BOOTLOADER : ORIGIN = 0x8000000, LENGTH = __boot_size }`
D_boot   == Decl(wBOOTLOADER, wORIGIN, w0x8000000, wLENGTH, w__boot_size) \o <<" ", "}">>
\* `MEMORY { BOOTLOADER : ORIGIN = 0x8000000, LENGTH = __boot_size }`
M_boot   == M_open \o <<" ">> \o D_boot
\* `RAM : ORIGIN = 0x20000000, LENGTH = 8K`
D_ram    == Decl(wRAM, wORIGIN, w0x20000000, wLENGTH, w8K)
\* `FLASH : ORIGIN = 0, LENGTH = __ROM`
D_flash  == Decl(wFLASH, wORIGIN, w0, wLENGTH, w__ROM)
\* `      APPLICATION : ORIGIN = 0x8010000, LENGTH = __slot_size`
D_app    == <<" ", " ", " ", " ", " ", " ">>
                \o Decl(wAPPLICATION, wORIGIN, w0x8010000, wLENGTH, w__slot_size)
\* `RAM : ORIGIN = 0x20000000, LENGTH = 8K + 10K`
D_sum    == D_ram \o <<" ", "+", " ">> \o w10K
\* `RAM : ORIGIN = ORIGIN(OTHER), LENGTH = 8K`
D_xref1  == Decl(wRAM, wORIGIN, wORIGIN \o <<"(">> \o wOTHER \o <<")">>, wLENGTH, w8K)
\* `FLASH : ORIGIN = 0, LENGTH = LENGTH(RAM)`
D_xref   == Decl(wFLASH, wORIGIN, w0, wLENGTH, wLENGTH \o <<"(">> \o wRAM \o <<")">>)
\* `RAM : START = 0, LENGTH = 8K`
D_start  == Decl(wRAM, wSTART, w0, wLENGTH, w8K)
\* `FLASH : ORIGIN = 0, SIZE = 8K`
D_size   == Decl(wFLASH, wORIGIN, w0, <<"S", "I", "Z", "E">>, w8K)

Lines ==
    { A_boot, A_boot2, A_rom, A_slot, M_open, M_boot, D_boot, D_ram, D_flash, D_app,
      D_sum, D_xref1, D_xref, D_start, D_size }

\* what the two patterns capture of each line of the inventory
Captures == [l \in Lines |-> [var |-> VariableCaptures(l), reg |-> MemRegCaptures(l)]]

MaxLines == 3

Scripts == UNION {[1..n -> Lines] : n \in 1..MaxLines}

RECURSIVE JoinLines(_)
\* the text of the file whose lines are ls
JoinLines(ls) ==
    IF Len(ls) = 1 THEN ls[1]
    ELSE ls[1] \o <<"\n">> \o JoinLines(SubSeq(ls, 2, Len(ls)))

Text(ls) == [readable |-> TRUE, text |-> JoinLines(ls)]

Unreadable == [readable |-> FALSE, text |-> <<>>]

LdFiles == {Unreadable} \cup {Text(s) : s \in Scripts}

(***************************************************************************)
(* MemoryRegion::from_file, one step per line                              *)
(***************************************************************************)
NoResult == [tag |-> "None", regions |-> <<>>]

\* std::fs::read_to_string(path)? and s.split("\n")
LinkRead ==
    /\ ldPc = "read"
    /\ IF ldFile.readable
       THEN /\ lines' = SplitLines(ldFile.text)
            /\ ldPc' = "lines"
            /\ UNCHANGED ldResult
       ELSE /\ ldResult' = [tag |-> "Err", regions |-> <<>>]
            /\ ldPc' = "returned"
            /\ UNCHANGED lines
    /\ UNCHANGED <<ldFile, build, lineNo, vars, regions, offLink>>

\* one turn of the for loop; an error (or panic) ends from_file at once, and
\* the Vec built so far is dropped with the frame
LinkLine ==
    /\ ldPc = "lines"
    /\ lineNo < Len(lines)
    /\ LET r == Step(vars, regions, Captures[lines[lineNo + 1]], build)
       IN  IF r.tag = "Ok"
           THEN /\ vars' = r.vars
                /\ regions' = r.regions
                /\ UNCHANGED <<ldPc, ldResult>>
           ELSE /\ ldResult' = [tag |-> r.tag, regions |-> <<>>]
                /\ ldPc' = "returned"
                /\ UNCHANGED <<vars, regions>>
    /\ lineNo' = lineNo + 1
    /\ UNCHANGED <<ldFile, build, lines, offLink>>

\* Ok(regions)
LinkReturn ==
    /\ ldPc = "lines"
    /\ lineNo = Len(lines)
    /\ ldResult' = [tag |-> "Ok", regions |-> regions]
    /\ ldPc' = "returned"
    /\ UNCHANGED <<ldFile, build, lines, lineNo, vars, regions, offLink>>

(***************************************************************************)
(* parse_value and one region declaration, on bounded inputs               *)
(***************************************************************************)
ValueWords ==
    { w0x10000, w0x1F, w0xZZ, w0x, w0x40000000, w0, w12, w007, w1073741824, w12ab,
      w8K, w1048576K, w12aK, wK, w1M, w1024M, w1048576M,
      w0x1000, w0x8000000, w0x20000000, w10K, w32K,
      w__boot_size, w__ROM, wSIZE_K, w0xv }

VarTables ==
    { NoVars,
      (w__boot_size :> 65536),
      (w__boot_size :> 65536 @@ w__ROM :> 4096 @@ wSIZE_K :> 7 @@ w0xv :> 9
         @@ w12ab :> 5 @@ w0x1F :> 3) }

NoOutcome == [tag |-> "None", val |-> 0]

\* what from_file makes of a file of the one line l, given the variables vs
LineOutcome(l, vs, bld) ==
    LET c == MemRegCaptures(l)
    IN  IF c.matched THEN ParseRegion(c.groups, vs, bld)
        ELSE [tag |-> "NoMatch", val |-> 0]

\* parse_value(vars, a)
DeclValue ==
    /\ dcPc = "input"
    /\ dcValue' = ParseValue(dcVars, dcA, dcBuild)
    /\ dcPc' = "value"
    /\ UNCHANGED <<dcVars, dcA, dcB, dcBuild, dcFwd, dcSwp, offDecl>>

\* the line `RAM : ORIGIN = a, LENGTH = b`
DeclForward ==
    /\ dcPc = "value"
    /\ dcFwd' = LineOutcome(Decl(wRAM, wORIGIN, dcA, wLENGTH, dcB), dcVars, dcBuild)
    /\ dcPc' = "forward"
    /\ UNCHANGED <<dcVars, dcA, dcB, dcBuild, dcValue, dcSwp, offDecl>>

\* the line `RAM : LENGTH = b, ORIGIN = a`
DeclSwapped ==
    /\ dcPc = "forward"
    /\ dcSwp' = LineOutcome(Decl(wRAM, wLENGTH, dcB, wORIGIN, dcA), dcVars, dcBuild)
    /\ dcPc' = "done"
    /\ UNCHANGED <<dcVars, dcA, dcB, dcBuild, dcValue, dcFwd, offDecl>>

(***************************************************************************)
(* Symbol names: demangle.rs, and the two helpers of exe.rs                *)
(***************************************************************************)
\* raw names as a symbol table holds them
NamePlain == <<"f">>
NamePath  == <<"g", ":", ":", "h">>
NameColon == <<":", "x">>
\* a Rust function a::b with its hash:
\*   _ZN1a1b17h0123456789abcdefE
NameHashed ==
    <<"_", "Z", "N", "1", "a", "1", "b", "1", "7", "h", "0", "1", "2", "3",
      "4", "5", "6", "7", "8", "9", "a", "b", "c", "d", "e", "f", "E">>
\* a mangled name of one element:
\*   _ZN1fE
NameBare ==
    <<"_", "Z", "N", "1", "f", "E">>
\* a mangled name whose one element starts with an escaped `:`:
\*   _ZN6$u3a$xE
NameEscaped ==
    <<"_", "Z", "N", "6", "$", "u", "3", "a", "$", "x", "E">>
\* the method m of `impl b::U for a::T`:
\*   _ZN29_$LT$a..T$u20$as$u20$b..U$GT$1m17h0123456789abcdefE
NameImpl ==
    <<"_", "Z", "N", "2", "9", "_", "$", "L", "T", "$", "a", ".", ".", "T",
      "$", "u", "2", "0", "$", "a", "s", "$", "u", "2", "0", "$", "b", ".",
      ".", "U", "$", "G", "T", "$", "1", "m", "1", "7", "h", "0", "1", "2",
      "3", "4", "5", "6", "7", "8", "9", "a", "b", "c", "d", "e", "f", "E">>
\* the C++ function f():
\*   _Z1fv
NameCpp ==
    <<"_", "Z", "1", "f", "v">>
\* a C function:
\*   main
NameMain ==
    <<"m", "a", "i", "n">>
\* a mangled name whose last element holds an escaped `:`:
\*   _ZN1a7b$u3a$xE
NameMid ==
    <<"_", "Z", "N", "1", "a", "7", "b", "$", "u", "3", "a", "$", "x", "E">>

RawNames ==
    { NamePlain, NamePath, NameColon, NameHashed, NameBare, NameEscaped, NameImpl,
      NameCpp, NameMain }

\* the names demangle is called with
DemangleInputs == RawNames \cup {NameMid}

\* demangled names
\* core::fmt::Formatter::write_str
T_path ==
    <<"c", "o", "r", "e", ":", ":", "f", "m", "t", ":", ":", "F", "o", "r",
      "m", "a", "t", "t", "e", "r", ":", ":", "w", "r", "i", "t", "e", "_",
      "s", "t", "r">>
\* <heapless::vec::Vec<T,_> as core::ops::deref::Deref>::deref
T_impl ==
    <<"<", "h", "e", "a", "p", "l", "e", "s", "s", ":", ":", "v", "e", "c",
      ":", ":", "V", "e", "c", "<", "T", ",", "_", ">", " ", "a", "s", " ",
      "c", "o", "r", "e", ":", ":", "o", "p", "s", ":", ":", "d", "e", "r",
      "e", "f", ":", ":", "D", "e", "r", "e", "f", ">", ":", ":", "d", "e",
      "r", "e", "f">>
\* <bool as core::fmt::Display>::fmt
T_bool ==
    <<"<", "b", "o", "o", "l", " ", "a", "s", " ", "c", "o", "r", "e", ":",
      ":", "f", "m", "t", ":", ":", "D", "i", "s", "p", "l", "a", "y", ">",
      ":", ":", "f", "m", "t">>
\* <*mut T as core::fmt::Debug>::fmt
T_mut ==
    <<"<", "*", "m", "u", "t", " ", "T", " ", "a", "s", " ", "c", "o", "r",
      "e", ":", ":", "f", "m", "t", ":", ":", "D", "e", "b", "u", "g", ">",
      ":", ":", "f", "m", "t">>
\* <*const T as core::fmt::Pointer>::fmt
T_const ==
    <<"<", "*", "c", "o", "n", "s", "t", " ", "T", " ", "a", "s", " ", "c",
      "o", "r", "e", ":", ":", "f", "m", "t", ":", ":", "P", "o", "i", "n",
      "t", "e", "r", ">", ":", ":", "f", "m", "t">>
\* <&dyn a::B as c::D>::e
T_dyn ==
    <<"<", "&", "d", "y", "n", " ", "a", ":", ":", "B", " ", "a", "s", " ",
      "c", ":", ":", "D", ">", ":", ":", "e">>
\* <a::T as b::U>::m
T_short ==
    <<"<", "a", ":", ":", "T", " ", "a", "s", " ", "b", ":", ":", "U", ">",
      ":", ":", "m">>
\* main
T_main ==
    <<"m", "a", "i", "n">>
\* f()
T_cpp ==
    <<"f", "(", ")">>
\* :x
T_colon ==
    <<":", "x">>

DemangledNames ==
    { T_path, T_impl, T_bool, T_mut, T_const,
      T_dyn, T_short, T_main, T_cpp, T_colon }


\* s[p..] starts with lit
StartsAt(s, p, lit) ==
    p + Len(lit) - 1 <= Len(s) /\ SubSeq(s, p, p + Len(lit) - 1) = lit

NotMangled == [ok |-> FALSE, elems |-> <<>>]

RECURSIVE LegacyFrom(_, _, _)
\* an element of length n whose characters start at q: the character after it
\* must exist
LegacyElement(s, q, n, acc) ==
    IF n = -1 \/ q + n > Len(s) THEN NotMangled
    ELSE LegacyFrom(s, q + n, Append(acc, SubSeq(s, q, q + n - 1)))

\* rustc_demangle, legacy mangling: the elements (a decimal length, then as
\* many characters) from position p on up to the closing `E`, which ends the
\* name; acc holds the elements so far
LegacyFrom(s, p, acc) ==
    IF p > Len(s) THEN NotMangled
    ELSE IF s[p] = "E"
    THEN (IF p = Len(s) THEN [ok |-> TRUE, elems |-> acc] ELSE NotMangled)
    ELSE IF s[p] \notin Digits THEN NotMangled
    ELSE LegacyElement(s, RunEnd(s, p, Digits),
                       FromStrRadix(SubSeq(s, p, RunEnd(s, p, Digits) - 1), 10), acc)

\* the `$..$` escapes of an element, as far as the names here use them
Escapes ==
    (<<"S", "P">> :> "@" @@ <<"B", "P">> :> "*" @@ <<"R", "F">> :> "&" @@ <<"L", "T">> :> "<" @@ <<"G", "T">> :> ">"
        @@ <<"L", "P">> :> "(" @@ <<"R", "P">> :> ")" @@ <<"C">> :> "," @@ <<"u", "2", "0">> :> " " @@ <<"u", "3", "a">> :> ":")

RECURSIVE Unescaped(_, _)
\* the escape that opens at p, `ends` the positions of the `$` after it: an
\* unknown or unclosed escape ends the decoding and the rest is written as it is
EscapeAt(e, p, ends) ==
    IF ends = {} THEN SubSeq(e, p, Len(e))
    ELSE IF SubSeq(e, p + 1, Min(ends) - 1) \in DOMAIN Escapes
    THEN <<Escapes[SubSeq(e, p + 1, Min(ends) - 1)]>> \o Unescaped(e, Min(ends) + 1)
    ELSE SubSeq(e, p, Len(e))

\* an element as Display writes it, from position p on: `..` is `::`
Unescaped(e, p) ==
    IF p > Len(e) THEN <<>>
    ELSE IF e[p] = "."
    THEN (IF p < Len(e) /\ e[p + 1] = "." THEN <<":", ":">> \o Unescaped(e, p + 2)
          ELSE <<".">> \o Unescaped(e, p + 1))
    ELSE IF e[p] = "$" THEN EscapeAt(e, p, {q \in (p + 1)..Len(e) : e[q] = "$"})
    ELSE <<e[p]>> \o Unescaped(e, p + 1)

RECURSIVE Joined(_, _)
\* the elements from k on, `::` between them; an element that starts with
\* `_$` loses the underscore
Joined(elems, k) ==
    IF k > Len(elems) THEN <<>>
    ELSE (IF k > 1 THEN <<":", ":">> ELSE <<>>)
             \o Unescaped(elems[k], IF StartsAt(elems[k], 1, <<"_", "$">>) THEN 2 ELSE 1)
             \o Joined(elems, k + 1)

Displayed(s, m) == IF m.ok THEN Joined(m.elems, 1) ELSE s

\* rustc_demangle::demangle(s).to_string(): a name of the legacy mangling is
\* written as its path, hash included; any other name comes back as it is
\* (the v0 mangling `_R..` is not among the names here)
RustcDemangle(s) ==
    IF StartsAt(s, 1, <<"_", "Z", "N">>) THEN Displayed(s, LegacyFrom(s, 4, <<>>)) ELSE s

\* cpp_demangle::Symbol::new(s) and demangle(): of the Itanium mangling, the
\* function `_Z<length><name>v` of no argument; every other name here fails
CppDemangle(s) ==
    IF /\ StartsAt(s, 1, <<"_", "Z">>)
       /\ Len(s) >= 5
       /\ s[Len(s)] = "v"
       /\ RunEnd(s, 3, Digits) > 3
       /\ FromStrRadix(SubSeq(s, 3, RunEnd(s, 3, Digits) - 1), 10)
              = Len(s) - RunEnd(s, 3, Digits)
    THEN [ok |-> TRUE, name |-> SubSeq(s, RunEnd(s, 3, Digits), Len(s) - 1) \o <<"(", ")">>]
    ELSE [ok |-> FALSE, name |-> <<>>]

\* bytes().rposition(|b| b == b':'), 0-based; -1 for None
RPosition(s, c) ==
    IF \E k \in 1..Len(s) : s[k] = c
    THEN (CHOOSE k \in 1..Len(s) : s[k] = c /\ \A j \in (k+1)..Len(s) : s[j] # c) - 1
    ELSE -1

\* name.drain(start..)
Drained(name, start) ==
    IF start.panic \/ start.val > Len(name) THEN [panic |-> TRUE, name |-> <<>>]
    ELSE [panic |-> FALSE, name |-> SubSeq(name, 1, start.val)]

StripHashAtColon(name, pos, bld) ==
    IF pos = -1 THEN [panic |-> FALSE, name |-> name]
    ELSE Drained(name, [panic |-> FALSE, val |-> pos])

\* if let Some(pos) = .. { name.drain((pos - 1)..) }: with pos = 0 a debug
\* build panics on the subtraction, a release build on the range start
\* usize::MAX > len
StripHash(name, pos, bld) ==
    IF pos = -1 THEN [panic |-> FALSE, name |-> name]
    ELSE Drained(name, SubUsize(pos, 1, bld))

RustSymbol(r) == [panic |-> r.panic, kind |-> "Rust", name |-> r.name]

CppOrOther(s, c) ==
    IF c.ok THEN [panic |-> FALSE, kind |-> "Cpp", name |-> c.name]
    ELSE [panic |-> FALSE, kind |-> "Other", name |-> s]

\* demangle.rs demangle(s), name the Rust demangling of s: the hash is cut
\* only where that changed the name
DemangledFrom(s, name, bld) ==
    IF name # s THEN RustSymbol(StripHash(name, RPosition(name, ":"), bld))
    ELSE CppOrOther(s, CppDemangle(s))

\* pub fn demangle(s: &str) -> DemangledSymbol
DemangledSymbol(s, bld) == DemangledFrom(s, RustcDemangle(s), bld)

\* the end of an optional character of the set cs at p
SkipChar(s, p, cs) == IF p <= Len(s) /\ s[p] \in cs THEN p + 1 ELSE p

\* the end of an optional literal at p
SkipLit(s, p, lit) == IF StartsAt(s, p, lit) THEN p + Len(lit) ELSE p

\* (\w+): at p: the word, and the position after the colon
WordColon(s, p) ==
    IF RunEnd(s, p, WordChars) > p /\ StartsAt(s, RunEnd(s, p, WordChars), <<":">>)
    THEN [matched |-> TRUE, word |-> SubSeq(s, p, RunEnd(s, p, WordChars) - 1),
          end |-> RunEnd(s, p, WordChars) + 1]
    ELSE [matched |-> FALSE, word |-> <<>>, end |-> p]

\* the positions q >= p where `as ` stands before a word and a colon
AsWords(s, p) ==
    {q \in p..Len(s) : StartsAt(s, q, <<"a", "s", " ">>) /\ WordColon(s, q + 3).matched}

Max(S) == CHOOSE x \in S : \A y \in S : x >= y

\* (.*as (\w+):)? at p: `.*` is greedy, so the last such position counts
AsWord(s, p) ==
    IF AsWords(s, p) = {} THEN <<>> ELSE WordColon(s, Max(AsWords(s, p)) + 3).word

\* ^<?[&*]?(mut )?(const )?(dyn )? : every item is optional and so is all
\* that follows, so each is taken where it stands
PrefixEnd(s) ==
    SkipLit(s, SkipLit(s, SkipLit(s, SkipChar(s, SkipChar(s, 1, {"<"}), {"&", "*"}),
                                      <<"m", "u", "t", " ">>), <<"c", "o", "n", "s", "t", " ">>), <<"d", "y", "n", " ">>)

FirstNonEmptyTraitFirst(name1, name2) ==
    IF name2 # <<>> THEN name2 ELSE IF name1 # <<>> THEN name1 ELSE <<"?">>

\* crate_name1 if it is not empty, else crate_name2 if it is not empty, else `?`
FirstNonEmpty(name1, name2) ==
    IF name1 # <<>> THEN name1 ELSE IF name2 # <<>> THEN name2 ELSE <<"?">>

\* the captures 5 and 7, w the match of ((\w+):)? at the end of the prefix
CrateNames(s, w) == FirstNonEmpty(w.word, AsWord(s, w.end))

\* pub fn crate_name_from_demangled(s: &str) -> String
CrateNameFromDemangled(s) == CrateNames(s, WordColon(s, PrefixEnd(s)))

\* (dyn )?(\w+): at p, `dyn ` tried first
DynWord(s, p) ==
    IF StartsAt(s, p, <<"d", "y", "n", " ">>) /\ WordColon(s, p + 4).matched THEN WordColon(s, p + 4)
    ELSE WordColon(s, p)

\* the positions q > p where `as ` stands and the rest of the pattern matches
AsTails(s, p) ==
    {q \in (p + 1)..Len(s) : StartsAt(s, q, <<"a", "s", " ">>) /\ DynWord(s, q + 3).matched}

\* (.+as )?(dyn )?(\w+): at p: the longest `.+` first, no group last
AsTail(s, p) ==
    IF AsTails(s, p) # {} THEN DynWord(s, Max(AsTails(s, p)) + 3) ELSE DynWord(s, p)

\* an optional character of cs at p, then Tail: taken first, left out if the
\* rest fails with it
AmpTail(s, p) ==
    IF p <= Len(s) /\ s[p] = "&" /\ AsTail(s, p + 1).matched THEN AsTail(s, p + 1)
    ELSE AsTail(s, p)

\* ^<?&?(.+as )?(dyn )?(\w+):
CratePattern(s) ==
    IF s # <<>> /\ s[1] = "<" /\ AmpTail(s, 2).matched THEN AmpTail(s, 2)
    ELSE AmpTail(s, 1)

\* c.get(3) of the match, or `?`
Group3(m) == IF m.matched THEN m.word ELSE <<"?">>

\* exe.rs demangle: drop everything from one byte before the last ':'
Demangle(s, bld) == StripHash(RustcDemangle(s), RPosition(RustcDemangle(s), ":"), bld)

\* exe.rs demangle_crate(s); the panic is that of demangle(s)
DemangleCrate(s, bld) == Group3(CratePattern(Demangle(s, bld).name))

NoSymbol == [panic |-> FALSE, kind |-> "None", name |-> <<>>]
NoNames  == [panic |-> FALSE, name |-> <<>>, crate_name |-> <<>>]

\* demangle::demangle(nmRaw)
NameDemangle ==
    /\ nmPc = "input"
    /\ nmSymbol' = DemangledSymbol(nmRaw, nmBuild)
    /\ nmPc' = "demangled"
    /\ UNCHANGED <<nmBuild, nmRaw, nmText, nmCrate, nmExe, offName>>

\* demangle::crate_name_from_demangled(nmText)
NameCrate ==
    /\ nmPc = "demangled"
    /\ nmCrate' = CrateNameFromDemangled(nmText)
    /\ nmPc' = "guessed"
    /\ UNCHANGED <<nmBuild, nmRaw, nmText, nmSymbol, nmExe, offName>>

\* the name and the crate_name that exe::parse gives the symbol named nmRaw
NameExe ==
    /\ nmPc = "guessed"
    /\ nmExe' = [panic      |-> Demangle(nmRaw, nmBuild).panic,
                 name       |-> Demangle(nmRaw, nmBuild).name,
                 crate_name |-> DemangleCrate(nmRaw, nmBuild)]
    /\ nmPc' = "done"
    /\ UNCHANGED <<nmBuild, nmRaw, nmText, nmSymbol, nmCrate, offName>>

(***************************************************************************)
(* exe::parse                                                              *)
(***************************************************************************)
MaxSyms      == 3      \* entries in a symbol table
MaxAddr      == 2      \* addresses are 0..MaxAddr
ReportedSize == 4      \* the one non-zero size a format reports

\* the object::SymbolKind of an entry, as far as `parse` tells the kinds apart
Kinds == {"Text", "Data", "Label"}

\* entries of every kind, size and address, under the plain name
TableEntries ==
    { [name |-> NamePlain, size |-> s, addr |-> a, kind |-> k] :
          k \in Kinds, s \in {0, ReportedSize}, a \in 0..MaxAddr }

\* entries of every kind under the other names
NamedEntries ==
    { [name |-> n, size |-> ReportedSize, addr |-> 0, kind |-> k] :
          n \in RawNames \ {NamePlain}, k \in Kinds }

\* the symbol tables of the files: all tables of up to MaxSyms plain entries,
\* and the tables of one or two named entries
SymbolTables ==
    UNION {[1..n -> TableEntries] : n \in 0..MaxSyms}
        \cup {<<e>> : e \in NamedEntries}
        \cup {<<d, e>> : d, e \in NamedEntries}

\* the sections and the segments of every object file here
FileSections == <<[name |-> <<".", "t">>, addr |-> 0, size |-> 4]>>
FileSegments == <<[addr |-> 0, size |-> 4]>>

NoFile == [state |-> "none", symbols |-> <<>>, sections |-> <<>>, segments |-> <<>>]

Files ==
    { [state |-> st, symbols |-> <<>>, sections |-> <<>>, segments |-> <<>>] :
          st \in {"unopenable", "unmappable", "unrecognized"} }
    \cup
    { [state |-> "object", symbols |-> t, sections |-> FileSections,
       segments |-> FileSegments] : t \in SymbolTables }

\* the match on s.kind()
KindOf(k) ==
    CASE k = "Text" -> "Function"
      [] k = "Data" -> "Data"
      [] OTHER      -> "Unknown"

\* the closure of .map(): one Symbol per entry; `entry` remembers the index of
\* the entry it was made from
MakeSymbol(t, n, bld) ==
    [name  |-> Demangle(t[n].name, bld).name,
     crate_name |-> DemangleCrate(t[n].name, bld),
     size  |-> t[n].size,
     addr  |-> t[n].addr,
     kind  |-> KindOf(t[n].kind),
     entry |-> n]

KeepAll(s) == TRUE

\* .filter(|s| s.kind != SymbolKind::Unknown)
Retained(s) == s.kind # "Unknown"

Filtered(s) == IF Retained(s) THEN <<s>> ELSE <<>>

RECURSIVE Collect(_, _, _)
\* .map(..).filter(..).collect() from entry n on
Collect(t, n, bld) ==
    IF n > Len(t) THEN <<>>
    ELSE Filtered(MakeSymbol(t, n, bld)) \o Collect(t, n + 1, bld)

\* sort_by_key(|s| s.addr): a stable sort
InsertByAddr(sorted, s) ==
    LET k == Cardinality({j \in 1..Len(sorted) : sorted[j].addr <= s.addr})
    IN  SubSeq(sorted, 1, k) \o <<s>> \o SubSeq(sorted, k + 1, Len(sorted))

RECURSIVE SortByAddr(_)
SortByAddr(syms) ==
    IF syms = <<>> THEN <<>>
    ELSE InsertByAddr(SortByAddr(SubSeq(syms, 1, Len(syms) - 1)), syms[Len(syms)])

NextNeighbour(syms, i) == IF i < Len(syms) THEN i + 1 ELSE 0

\* symbols[i..].iter().skip_while(|s| s.addr == sym.addr).next(): its index, 0 for None
NextSymbol(syms, i) ==
    IF \A j \in i..Len(syms) : syms[j].addr = syms[i].addr THEN 0
    ELSE Min({j \in i..Len(syms) : syms[j].addr # syms[i].addr})

\* symbols[i].size = next.addr - sym.addr, without the two guards before it
SizedUnguarded(syms, i, n, bld) ==
    [syms EXCEPT ![i].size =
        SubUsize(IF n = 0 THEN 0 ELSE syms[n].addr, syms[i].addr, "release").val]

RepairAtUnguarded(syms, i, bld) ==
    IF syms[i].size # 0 THEN syms
    ELSE SizedUnguarded(syms, i, NextSymbol(syms, i), bld)

SizedNext(syms, i, n, bld) ==
    IF n # 0 /\ syms[n].addr > syms[i].addr
    THEN [syms EXCEPT ![n].size = SubUsize(syms[n].addr, syms[i].addr, bld).val]
    ELSE syms

\* if let Some(next) = .. { if next.addr > sym.addr { symbols[i].size = .. } }
Sized(syms, i, n, bld) ==
    IF n # 0 /\ syms[n].addr > syms[i].addr
    THEN [syms EXCEPT ![i].size = SubUsize(syms[n].addr, syms[i].addr, bld).val]
    ELSE syms

\* the body of the repair loop for index i (1-based)
RepairAt(syms, i, bld) ==
    IF syms[i].size # 0 THEN syms
    ELSE Sized(syms, i, NextSymbol(syms, i), bld)

RECURSIVE RepairFrom(_, _, _, _)
\* iterations i..last of the loop; symbols[i] out of range panics
RepairFrom(syms, i, last, bld) ==
    IF i > last THEN [panic |-> FALSE, symbols |-> syms]
    ELSE IF i > Len(syms) THEN [panic |-> TRUE, symbols |-> <<>>]
    ELSE RepairFrom(RepairAt(syms, i, bld), i + 1, last, bld)

\* for i in 0..symbols.len() - 1: with no symbols the bound underflows; a debug
\* build panics there, a release build wraps it to usize::MAX and panics on
\* symbols[0]
RepairTo(syms, bound, bld) ==
    IF bound.panic THEN [panic |-> TRUE, symbols |-> <<>>]
    ELSE RepairFrom(syms, 1, bound.val, bld)

Repair(syms, bld) == RepairTo(syms, SubUsize(Len(syms), 1, bld), bld)

Panicked == [tag |-> "Panic", error |-> "", symbols |-> <<>>, sections |-> <<>>,
             segments |-> <<>>]
Failed(e) == [tag |-> "Err", error |-> e, symbols |-> <<>>, sections |-> <<>>,
              segments |-> <<>>]

Returned(f, r) ==
    IF r.panic THEN Panicked
    ELSE [tag |-> "Ok", error |-> "", symbols |-> r.symbols, sections |-> f.sections,
          segments |-> f.segments]

\* pub fn parse(path)
Parse(f, bld) ==
    CASE f.state = "unopenable"   -> Failed("open")
      [] f.state = "unmappable"   -> Failed("map")
      [] f.state = "unrecognized" -> Failed("format")
      [] OTHER ->
           IF \E n \in 1..Len(f.symbols) : Demangle(f.symbols[n].name, bld).panic
           THEN Panicked
           ELSE Returned(f, Repair(SortByAddr(Collect(f.symbols, 1, bld)), bld))

NotCalled == [tag |-> "None", error |-> "", symbols |-> <<>>, sections |-> <<>>,
              segments |-> <<>>]

ExeParse ==
    /\ exePc = "call"
    /\ \E bld \in Builds : exe' = Parse(file, bld)
    /\ exePc' = "returned"
    /\ UNCHANGED <<file, offExe>>

(***************************************************************************)
(* MemoryRegion::use_segments_data                                         *)
(***************************************************************************)
MaxRegions  == 2      \* regions of a linker script
MaxSegments == 2      \* load segments of an executable

\* a + b on usize: debug builds panic on overflow, release builds wrap
AddUsize(a, b, bld) ==
    IF a <= UsizeMax - b THEN [panic |-> FALSE, val |-> a + b]
    ELSE IF bld = "debug" THEN [panic |-> TRUE, val |-> 0]
    ELSE [panic |-> FALSE, val |-> (a - Modulus) + b]

\* an f32 is kept as the exact quotient num/den in lowest terms, or as one of
\* the two non-finite outcomes of a division by zero.  `usize as f32` is exact
\* below 2^24, and so is length / 100.0 for a length that is a multiple of
\* 100; the one rounding, that of the last division, is a function of the
\* exact quotient.
RECURSIVE Gcd(_, _)
Gcd(a, b) == IF b = 0 THEN a ELSE Gcd(b, a % b)

Finite(n, d) == [kind |-> "finite", num |-> n, den |-> d]
Infinite     == [kind |-> "inf", num |-> 1, den |-> 0]
NaN          == [kind |-> "nan", num |-> 0, den |-> 0]

\* n as f32
AsF32(n) == Finite(n, 1)

LowestTerms(n, d, g) == Finite(n \div g, d \div g)

\* a / b on finite, non-negative f32: x / 0.0 is +inf, 0.0 / 0.0 is NaN
F32Div(a, b) ==
    IF b.num = 0 THEN (IF a.num = 0 THEN NaN ELSE Infinite)
    ELSE LowestTerms(a.num * b.den, a.den * b.num,
                     Gcd(a.num * b.den, a.den * b.num))

\* a / b where b is the outcome of an earlier division
F32DivBy(a, b) ==
    IF b.kind = "finite" THEN F32Div(a, b)
    ELSE IF b.kind = "inf" THEN Finite(0, 1)
    ELSE NaN

\* MemoryRegion::bounds: (origin, origin + length)
Bounds(reg, bld) == [start |-> reg.origin, end |-> AddUsize(reg.origin, reg.length, bld)]

InBoundsExclusive(start, end, seg) == start <= seg.addr /\ seg.addr < end

\* start <= seg.addr && seg.addr <= end
InBounds(start, end, seg) == start <= seg.addr /\ seg.addr <= end

RECURSIVE UsedFrom(_, _, _, _, _, _)
\* the inner loop from segment k on: reg.used += seg.size for the segments in
\* bounds; acc is reg.used so far, or the panic of an addition
UsedFrom(acc, start, end, segs, k, bld) ==
    IF acc.panic \/ k > Len(segs) THEN acc
    ELSE UsedFrom(IF InBounds(start, end, segs[k])
                      THEN AddUsize(acc.val, segs[k].size, bld)
                      ELSE acc,
                  start, end, segs, k + 1, bld)

PercentagePlain(used, length) == F32Div(AsF32(used), AsF32(length))

\* reg.used as f32 / (reg.length as f32 / 100.0)
Percentage(used, length) ==
    F32DivBy(AsF32(used), F32Div(AsF32(length), AsF32(100)))

\* the region once its segments are summed
WithUsed(reg, used) ==
    [reg EXCEPT !.used = used, !.used_percentage = Percentage(used, reg.length)]

UseRegionFromZero(reg, b, segs, bld) ==
    IF b.end.panic THEN [panic |-> TRUE, val |-> 0]
    ELSE UsedFrom([panic |-> FALSE, val |-> 0], b.start, b.end.val, segs, 1, bld)

\* one pass of the outer loop body over reg, whose bounds are b
UseRegion(reg, b, segs, bld) ==
    IF b.end.panic THEN [panic |-> TRUE, val |-> 0]
    ELSE UsedFrom([panic |-> FALSE, val |-> reg.used], b.start, b.end.val, segs, 1, bld)

RECURSIVE UseFrom(_, _, _, _, _)
\* the outer loop from region k on; done holds the regions already updated and
\* used is the sum for region k - 1
UseStep(done, regs, k, segs, bld, used) ==
    IF used.panic THEN PanicResult
    ELSE UseFrom(Append(done, WithUsed(regs[k], used.val)), regs, k + 1, segs, bld)

UseFrom(done, regs, k, segs, bld) ==
    IF k > Len(regs) THEN Ok(done)
    ELSE UseStep(done, regs, k, segs, bld,
                 UseRegion(regs[k], Bounds(regs[k], bld), segs, bld))

\* use_segments_data(regions, segments): the regions as the call leaves them,
\* or the panic that ends it
UseSegments(regs, segs, bld) == UseFrom(<<>>, regs, 1, segs, bld)

\* (origin, length) of the regions of the inventory: an empty region, two that
\* overlap, one that holds them, and one that ends past the last address
RegionShapes ==
    { <<0, 0>>, <<0, 200>>, <<100, 200>>, <<0, 1000>>, <<UsizeMax - 99, 200>> }

ParsedRegions == { NewRegion(wRAM, sh[1], sh[2]) : sh \in RegionShapes }

\* (addr, size) of the segments: the sizes are distinct powers of two, but for
\* the last
SegmentShapes ==
    { <<0, 1>>, <<99, 2>>, <<100, 4>>, <<200, 8>>, <<300, 16>>, <<301, 32>>,
      <<UsizeMax - 50, 64>>, <<1000, 500>> }

LoadSegments == { [addr |-> sh[1], size |-> sh[2]] : sh \in SegmentShapes }

RegionLists  == UNION { [1..n -> ParsedRegions] : n \in 0..MaxRegions }
SegmentLists == UNION { [1..n -> LoadSegments] : n \in 0..MaxSegments }

NotUsed == [tag |-> "None", val |-> <<>>]

\* link::MemoryRegion::use_segments_data(&mut regions, &self.exe.segments)
UseSegmentsData ==
    /\ usPc = "call"
    /\ usResult' = UseSegments(usRegions, usSegments, usBuild)
    /\ usPc' = "returned"
    /\ UNCHANGED <<usRegions, usSegments, usBuild, offUse>>

\* a second call on the regions the first call left, with the same segments
UseSegmentsDataAgain ==
    /\ usPc = "returned"
    /\ usResult.tag = "Ok"
    /\ usResult' = UseSegments(usResult.val, usSegments, usBuild)
    /\ usPc' = "again"
    /\ UNCHANGED <<usRegions, usSegments, usBuild, offUse>>

(***************************************************************************)
(* output.rs: the tables to print and their columns                        *)
(***************************************************************************)
RECURSIVE BitAnd(_, _)
\* a & b
BitAnd(a, b) ==
    IF a = 0 \/ b = 0 THEN 0
    ELSE (a % 2) * (b % 2) + 2 * BitAnd(a \div 2, b \div 2)

\* a | b
BitOr(a, b) == a + b - BitAnd(a, b)

\* !a on u8
BitNot(a) == 255 - a

\* OutputKind::all()
TableKinds == {"Symbols", "Sections", "Segments", "Crates"}

\* kind as u8
KindBit(kind) ==
    CASE kind = "Symbols"  -> 1
      [] kind = "Sections" -> 2
      [] kind = "Segments" -> 4
      [] kind = "Crates"   -> 8
      [] kind = "None"     -> 0
      [] kind = "All"      -> 255

\* OutputKind::try_from(value); "Err" for Err
OutputKindFrom(value) ==
    CASE value \in {<<"*">>, <<"a", "l", "l">>}        -> "All"
      [] value \in {<<"s", "y", "m">>, <<"s", "y", "m", "b", "o", "l", "s">>}  -> "Symbols"
      [] value \in {<<"s", "e", "c">>, <<"s", "e", "c", "t", "i", "o", "n", "s">>} -> "Sections"
      [] value \in {<<"s", "e", "g">>, <<"s", "e", "g", "m", "e", "n", "t", "s">>} -> "Segments"
      [] value \in {<<"c", "r">>, <<"c", "r", "a", "t", "e", "s">>}    -> "Crates"
      [] OTHER                         -> "Err"

\* SymbolTableFields::try_from(value) as u8; -1 for Err
SymbolTableFields(value) ==
    CASE value \in {<<"*">>, <<"a", "l", "l">>}           -> 255
      [] value \in {<<"s">>, <<"s", "i", "z", "e">>}          -> 1
      [] value \in {<<"p">>, <<"p", "e", "r", "c", "e", "n", "t">>, <<"%">>}  -> 2
      [] value \in {<<"k">>, <<"k", "i", "n", "d">>}          -> 4
      [] value \in {<<"c">>, <<"c", "r", "a", "t", "e">>}         -> 8
      [] value \in {<<"n">>, <<"n", "a", "m", "e">>}          -> 16
      [] OTHER                            -> -1

\* CrateTableFields::try_from(value) as u8
CrateTableFields(value) ==
    CASE value \in {<<"*">>, <<"a", "l", "l">>}  -> 255
      [] value \in {<<"n">>, <<"n", "a", "m", "e">>} -> 1
      [] value \in {<<"s">>, <<"s", "i", "z", "e">>} -> 2
      [] OTHER                   -> -1

\* SectionTableFields::try_from(value) as u8
SectionTableFields(value) ==
    CASE value \in {<<"*">>, <<"a", "l", "l">>}  -> 255
      [] value \in {<<"n">>, <<"n", "a", "m", "e">>} -> 1
      [] value \in {<<"a">>, <<"a", "d", "d", "r">>} -> 2
      [] value \in {<<"s">>, <<"s", "i", "z", "e">>} -> 4
      [] OTHER                   -> -1

\* SegmentTableFields::try_from(value) as u8
SegmentTableFields(value) ==
    CASE value \in {<<"*">>, <<"a", "l", "l">>}          -> 255
      [] value \in {<<"n">>, <<"n", "a", "m", "e">>}         -> 1
      [] value \in {<<"a">>, <<"a", "d", "d", "r">>}         -> 2
      [] value \in {<<"u">>, <<"u", "s", "e", "d">>}         -> 4
      [] value \in {<<"s">>, <<"s", "i", "z", "e">>}         -> 8
      [] value \in {<<"p">>, <<"p", "e", "r", "c", "e", "n", "t">>, <<"%">>} -> 16
      [] OTHER                           -> -1

\* the match on output_kind in the loop over the fields; -1 for a panic
FieldOf(kind, field) ==
    CASE kind = "Symbols"  -> SymbolTableFields(field)
      [] kind = "Sections" -> SectionTableFields(field)
      [] kind = "Segments" -> SegmentTableFields(field)
      [] kind = "Crates"   -> CrateTableFields(field)
      [] OTHER             -> -1

\* impl Default for Output
DefaultOutput == [outputs |-> 0, fields |-> [k \in TableKinds |-> 255]]

\* pub fn enable
Enable(out, kind) == [out EXCEPT !.outputs = BitOr(@, KindBit(kind))]

DisableAll(out, kind) == [out EXCEPT !.outputs = 0]

\* pub fn disable
Disable(out, kind) == [out EXCEPT !.outputs = BitAnd(@, BitNot(KindBit(kind)))]

\* pub fn enabled
Enabled(out, kind) == BitAnd(out.outputs, KindBit(kind)) # 0

\* pub fn any_enabled
AnyEnabled(out) == out.outputs # 0

\* pub fn field_disable
FieldDisable(out, kind, field) ==
    IF kind \in DOMAIN out.fields
    THEN [out EXCEPT !.fields[kind] = BitAnd(@, BitNot(field))]
    ELSE out

\* pub fn field_enabled
FieldEnabled(out, kind, field) ==
    IF kind \in DOMAIN out.fields THEN BitAnd(out.fields[kind], field) # 0 ELSE FALSE

RECURSIVE Split(_, _)
\* s.split(c)
Split(s, c) ==
    IF \E k \in 1..Len(s) : s[k] = c
    THEN <<SubSeq(s, 1, Min({j \in 1..Len(s) : s[j] = c}) - 1)>>
             \o Split(SubSeq(s, Min({j \in 1..Len(s) : s[j] = c}) + 1, Len(s)), c)
    ELSE <<s>>

\* field_mask |= Fields::try_from(field).expect(..) as u8
MaskWith(mask, bit) == IF mask = -1 \/ bit = -1 THEN -1 ELSE BitOr(mask, bit)

RECURSIVE FieldMask(_, _, _, _)
\* for field in fields.split(','), from field k on; -1 for a panic
FieldMask(kind, fields, k, mask) ==
    IF k > Len(fields) THEN mask
    ELSE FieldMask(kind, fields, k + 1, MaskWith(mask, FieldOf(kind, fields[k])))

\* if let Some(mask) = self.fields.get_mut(&output_kind)
MaskSet(out, kind, enable, mask) ==
    IF kind \in DOMAIN out.fields
    THEN [out EXCEPT !.fields[kind] = IF enable THEN mask ELSE BitNot(mask)]
    ELSE out

\* if enable { self.enable(kind) } else { self.disable(kind) }
Switched(out, kind, enable) == IF enable THEN Enable(out, kind) ELSE Disable(out, kind)

\* the end of apply_pattern, the kind and the mask known; "Err" and -1 are
\* the panics of the two expect()
Applied(out, enable, kind, mask) ==
    IF kind = "Err" \/ mask = -1 THEN [panic |-> TRUE, out |-> out]
    ELSE [panic |-> FALSE, out |-> MaskSet(Switched(out, kind, enable), kind, enable, mask)]

\* pattern.split_once('=')
Before(s, c) == SubSeq(s, 1, Min({j \in 1..Len(s) : s[j] = c}) - 1)
After(s, c)  == SubSeq(s, Min({j \in 1..Len(s) : s[j] = c}) + 1, Len(s))

\* apply_pattern once `!` is stripped
ApplyStripped(out, enable, p) ==
    IF \E k \in 1..Len(p) : p[k] = "="
    THEN Applied(out, enable, OutputKindFrom(Before(p, "=")),
                 FieldMask(OutputKindFrom(Before(p, "=")), Split(After(p, "="), ","), 1, 0))
    ELSE Applied(out, enable, OutputKindFrom(p), 255)

\* pub fn apply_pattern(&mut self, pattern: &str)
ApplyPattern(out, pattern) ==
    IF StartsWith(pattern, <<"!">>) THEN ApplyStripped(out, FALSE, StripPrefix(pattern, <<"!">>))
    ELSE ApplyStripped(out, TRUE, pattern)

(***************************************************************************)
(* Binsize::run: the config file, the command line, the default table      *)
(***************************************************************************)
MaxArgs == 2      \* arguments on a command line

\* Binsize::new()
NewBinsize ==
    [profile |-> <<"d", "e", "v">>, file |-> <<>>, filter |-> <<".", "+">>, ld_file |-> <<>>,
     color |-> FALSE, sort |-> "None", size_threshold |-> <<200, 500>>,
     percentage_threshold |-> <<Finite(1, 2), Finite(1, 1)>>,
     output |-> DefaultOutput]

\* the `output` arrays of the config files
ConfigOutputs ==
    { <<>>, <<<<"s", "y", "m", "b", "o", "l", "s">>, <<"s", "e", "g", "m", "e", "n", "t", "s">>>>, <<<<"c", "r", "a", "t", "e", "s", "=", "n", "a", "m", "e">>>>, <<<<"!", "s", "y", "m", "b", "o", "l", "s">>, <<"a", "l", "l">>>>,
      <<<<"t", "a", "b", "l", "e", "s">>>> }

\* .cargo/binsize.toml with a [binsize] table: every key of the example, or
\* `output` alone
ConfigOf(outs, sort, full) ==
    [exists |-> TRUE,
     color |-> [has |-> full, val |-> TRUE],
     profile |-> [has |-> full, val |-> <<"r", "e", "l", "e", "a", "s", "e">>],
     output |-> [has |-> TRUE, val |-> outs],
     file |-> [has |-> full, val |-> <<"t", "a", "r", "g", "e", "t", "/", "r", "e", "l", "e", "a", "s", "e", "/", "a", "p", "p">>],
     filter |-> [has |-> full, val |-> <<"s", "t", "d">>],
     ld_file |-> [has |-> full, val |-> <<"m", "e", "m", "o", "r", "y", ".", "x">>],
     sort |-> [has |-> full, val |-> sort],
     size_threshold |-> [has |-> full, val |-> <<5000, 10000>>],
     percentage_threshold |-> [has |-> full, val |-> <<Finite(1, 2), Finite(1, 1)>>]]

NoConfig == [ConfigOf(<<>>, <<"a", "s", "c">>, FALSE) EXCEPT !.exists = FALSE]

Configs ==
    {NoConfig}
        \cup {ConfigOf(o, s, f) : o \in ConfigOutputs, s \in {<<"a", "s", "c">>, <<"u", "p">>}, f \in BOOLEAN}

RECURSIVE ApplyAll(_, _, _)
\* for s in val { self.output.apply_pattern(s) } from pattern k on; r holds
\* the Output, the Output before the last pattern and that pattern
ApplyNext(r, ps, k, a) ==
    IF a.panic THEN [r EXCEPT !.panic = TRUE]
    ELSE ApplyAll([panic |-> FALSE, out |-> a.out, before |-> r.out, pattern |-> ps[k]],
                  ps, k + 1)

ApplyAll(r, ps, k) ==
    IF r.panic \/ k > Len(ps) THEN r
    ELSE ApplyNext(r, ps, k, ApplyPattern(r.out, ps[k]))

\* a key of the config that is present replaces the setting
Setting(key, old) == IF key.has THEN key.val ELSE old

\* match val.as_str() { "asc" => .., "desc" => .., _ => panic!(..) }
SortFrom(val) ==
    CASE val = <<"a", "s", "c">>  -> "Ascending"
      [] val = <<"d", "e", "s", "c">> -> "Descending"
      [] OTHER        -> "Panic"

\* the settings after parse_config, r the outcome of the `output` loop
Configured(app, cfg, r) ==
    [panic   |-> r.panic \/ (cfg.sort.has /\ SortFrom(cfg.sort.val) = "Panic"),
     before  |-> r.before,
     pattern |-> r.pattern,
     app     |-> [profile |-> Setting(cfg.profile, app.profile),
                  file    |-> Setting(cfg.file, app.file),
                  filter  |-> Setting(cfg.filter, app.filter),
                  ld_file |-> Setting(cfg.ld_file, app.ld_file),
                  color   |-> Setting(cfg.color, app.color),
                  sort    |-> IF cfg.sort.has THEN SortFrom(cfg.sort.val) ELSE app.sort,
                  size_threshold |-> Setting(cfg.size_threshold, app.size_threshold),
                  percentage_threshold |->
                      Setting(cfg.percentage_threshold, app.percentage_threshold),
                  output  |-> r.out]]

NoPattern == <<>>

\* fn parse_config(&mut self)
ParseConfig(app, cfg) ==
    IF ~cfg.exists
    THEN [panic |-> FALSE, before |-> app.output, pattern |-> NoPattern, app |-> app]
    ELSE Configured(app, cfg,
                    ApplyAll([panic |-> FALSE, out |-> app.output, before |-> app.output,
                              pattern |-> NoPattern],
                             cfg.output.val, 1))

\* the arguments declared in parse_args: name, keys, number of values (a flag
\* has none)
Arguments ==
    << [name |-> "help",                 keys |-> {<<"-", "-", "h", "e", "l", "p">>, <<"-", "h">>},          values |-> 0],
       [name |-> "version",              keys |-> {<<"-", "-", "v", "e", "r", "s", "i", "o", "n">>, <<"-", "v">>},       values |-> 0],
       [name |-> "profile",              keys |-> {<<"-", "-", "p", "r", "o", "f", "i", "l", "e">>, <<"-", "p">>},       values |-> 1],
       [name |-> "output",               keys |-> {<<"-", "-", "o", "u", "t", "p", "u", "t">>, <<"-", "o">>},        values |-> 1],
       [name |-> "file",                 keys |-> {<<"-", "-", "f", "i", "l", "e">>},                values |-> 1],
       [name |-> "ld-memory-map",        keys |-> {<<"-", "-", "l", "d", "-", "m", "e", "m", "o", "r", "y", "-", "m", "a", "p">>, <<"-", "l">>}, values |-> 1],
       [name |-> "filter",               keys |-> {<<"-", "-", "f", "i", "l", "t", "e", "r">>, <<"-", "f">>},        values |-> 1],
       [name |-> "asc",                  keys |-> {<<"-", "-", "a", "s", "c">>, <<"-", "a">>},           values |-> 0],
       [name |-> "desc",                 keys |-> {<<"-", "-", "d", "e", "s", "c">>, <<"-", "d">>},          values |-> 0],
       [name |-> "color",                keys |-> {<<"-", "-", "c", "o", "l", "o", "r">>, <<"-", "c">>},         values |-> 0],
       [name |-> "size-threshold",       keys |-> {<<"-", "-", "s", "i", "z", "e", "-", "t", "h", "r", "e", "s", "h", "o", "l", "d">>},      values |-> 2],
       [name |-> "percentage-threshold", keys |-> {<<"-", "-", "p", "e", "r", "c", "e", "n", "t", "a", "g", "e", "-", "t", "h", "r", "e", "s", "h", "o", "l", "d">>}, values |-> 2] >>

\* self.keymap: the index of the argument that owns the key, 0 for no entry
Keymap(key) ==
    IF \E n \in 1..Len(Arguments) : key \in Arguments[n].keys
    THEN CHOOSE n \in 1..Len(Arguments) : key \in Arguments[n].keys
    ELSE 0

RECURSIVE ArgParse(_, _, _)
\* handle_expected: the values are taken from the tokens that follow, and a
\* missing one panics
HandleExpected(tokens, k, acc, arg) ==
    IF k + arg.values > Len(tokens) THEN [panic |-> TRUE, args |-> acc]
    ELSE ArgParse(tokens, k + 1 + arg.values,
                  Append(acc, [name |-> arg.name,
                               values |-> SubSeq(tokens, k + 1, k + arg.values)]))

\* ArgumentParser::parse from token k on; an unknown key panics
\* (UnexpectedArgumentPolicy::Crash)
ArgParse(tokens, k, acc) ==
    IF k > Len(tokens) THEN [panic |-> FALSE, args |-> acc]
    ELSE IF Keymap(tokens[k]) = 0 THEN [panic |-> TRUE, args |-> acc]
    ELSE HandleExpected(tokens, k, acc, Arguments[Keymap(tokens[k])])

\* str::parse::<f32>() of digits, or digits `.` digits: the value in tenths,
\* hundredths, ..; [kind |-> "err"] for Err
FractionOf(whole, frac, digits) ==
    IF whole = -1 \/ frac = -1 THEN [kind |-> "err", num |-> 0, den |-> 1]
    ELSE LowestTerms(whole * (10 ^ digits) + frac, 10 ^ digits,
                     Gcd(whole * (10 ^ digits) + frac, 10 ^ digits))

ParseF32(s) ==
    IF \E k \in 1..Len(s) : s[k] = "."
    THEN FractionOf(FromStrRadix(Before(s, "."), 10), FromStrRadix(After(s, "."), 10),
                    Len(After(s, ".")))
    ELSE FractionOf(FromStrRadix(s, 10), 0, 0)

Step2(kind, app) == [kind |-> kind, app |-> app]

\* "output" => self.output.apply_pattern(val)
OutputArg(app, a) ==
    IF a.panic THEN Step2("panic", app) ELSE Step2("next", [app EXCEPT !.output = a.out])

\* "size-threshold" => both values .parse::<usize>().expect(..)
SizeArg(app, yellow, red) ==
    IF yellow = -1 \/ red = -1 THEN Step2("panic", app)
    ELSE Step2("next", [app EXCEPT !.size_threshold = <<yellow, red>>])

\* "percentage-threshold" => both values .parse::<f32>().expect(..)
PercentageArg(app, yellow, red) ==
    IF yellow.kind = "err" \/ red.kind = "err" THEN Step2("panic", app)
    ELSE Step2("next", [app EXCEPT !.percentage_threshold = <<yellow, red>>])

\* the body of `for arg in parsed.args`
HandleArg(app, arg) ==
    CASE arg.name \in {"help", "version"} -> Step2("exit", app)
      [] arg.name = "profile" -> Step2("next", [app EXCEPT !.profile = arg.values[1]])
      [] arg.name = "output"  -> OutputArg(app, ApplyPattern(app.output, arg.values[1]))
      [] arg.name = "file"    -> Step2("next", [app EXCEPT !.file = arg.values[1]])
      [] arg.name = "filter"  -> Step2("next", [app EXCEPT !.filter = arg.values[1]])
      [] arg.name = "ld-memory-map" -> Step2("next", [app EXCEPT !.ld_file = arg.values[1]])
      [] arg.name = "asc"     -> Step2("next", [app EXCEPT !.sort = "Ascending"])
      [] arg.name = "desc"    -> Step2("next", [app EXCEPT !.sort = "Descending"])
      [] arg.name = "color"   -> Step2("next", [app EXCEPT !.color = TRUE])
      [] arg.name = "size-threshold" ->
             SizeArg(app, FromStrRadix(arg.values[1], 10), FromStrRadix(arg.values[2], 10))
      [] arg.name = "percentage-threshold" ->
             PercentageArg(app, ParseF32(arg.values[1]), ParseF32(arg.values[2]))

\* the arguments a command line is made of: a key and its values
ArgumentGroups ==
    { <<<<"-", "-", "p", "r", "o", "f", "i", "l", "e">>, <<"b", "e", "n", "c", "h">>>>, <<<<"-", "o">>, <<"s", "e", "c", "t", "i", "o", "n", "s">>>>, <<<<"-", "-", "o", "u", "t", "p", "u", "t">>, <<"!", "s", "e", "c", "t", "i", "o", "n", "s">>>>,
      <<<<"-", "-", "o", "u", "t", "p", "u", "t">>, <<"c", "r", "a", "t", "e", "s", "=", "s", "i", "z", "e">>>>, <<<<"-", "-", "o", "u", "t", "p", "u", "t">>, <<"!", "s", "y", "m", "b", "o", "l", "s">>>>,
      <<<<"-", "-", "o", "u", "t", "p", "u", "t">>, <<"s", "y", "m", "b", "o", "l", "s", "=", "s", "i", "z", "e", ",", "n", "a", "m", "e">>>>, <<<<"-", "-", "o", "u", "t", "p", "u", "t">>, <<"!", "s", "e", "g">>>>,
      <<<<"-", "-", "o", "u", "t", "p", "u", "t">>, <<"s", "y", "m", "b", "o", "l", "s", "=", "c", "o", "l", "o", "u", "r">>>>, <<<<"-", "o">>, <<"!", "c", "r">>>>,
      <<<<"-", "-", "f", "i", "l", "e">>, <<"a", ".", "e", "l", "f">>>>, <<<<"-", "f">>, <<"c", "o", "r", "e">>>>, <<<<"-", "l">>, <<"a", ".", "x">>>>, <<<<"-", "-", "a", "s", "c">>>>, <<<<"-", "d">>>>,
      <<<<"-", "-", "c", "o", "l", "o", "r">>>>, <<<<"-", "-", "s", "i", "z", "e", "-", "t", "h", "r", "e", "s", "h", "o", "l", "d">>, <<"5", "0", "0">>, <<"1", "2", "0", "0">>>>,
      <<<<"-", "-", "s", "i", "z", "e", "-", "t", "h", "r", "e", "s", "h", "o", "l", "d">>, <<"5", "0", "0">>, <<"b", "i", "g">>>>,
      <<<<"-", "-", "p", "e", "r", "c", "e", "n", "t", "a", "g", "e", "-", "t", "h", "r", "e", "s", "h", "o", "l", "d">>, <<"1", ".", "2">>, <<"5", ".", "0">>>>, <<<<"-", "-", "h", "e", "l", "p">>>>, <<<<"-", "-", "v", "e", "r", "b", "o", "s", "e">>>>,
      <<<<"-", "-", "p", "r", "o", "f", "i", "l", "e">>>> }

RECURSIVE Flattened(_)
Flattened(groups) ==
    IF groups = <<>> THEN <<>> ELSE Head(groups) \o Flattened(Tail(groups))

\* std::env::args().skip(1)
CommandLines ==
    { Flattened(gs) : gs \in UNION { [1..n -> ArgumentGroups] : n \in 0..MaxArgs } }

\* self.parse_config()
RunParseConfig ==
    /\ rnPc = "start"
    /\ rnPc' = IF ParseConfig(NewBinsize, rnConfig).panic THEN "panicked" ELSE "config"
    /\ rnApp' = ParseConfig(NewBinsize, rnConfig).app
    /\ rnBefore' = ParseConfig(NewBinsize, rnConfig).before
    /\ rnPattern' = ParseConfig(NewBinsize, rnConfig).pattern
    /\ UNCHANGED <<rnConfig, rnArgv, rnParsed, rnDone, offRun>>

\* parse_args: argp.parse(std::env::args().skip(1))
RunParseArgs ==
    /\ rnPc = "config"
    /\ rnPc' = IF ArgParse(rnArgv, 1, <<>>).panic THEN "panicked" ELSE "args"
    /\ rnParsed' = ArgParse(rnArgv, 1, <<>>).args
    /\ UNCHANGED <<rnConfig, rnArgv, rnApp, rnBefore, rnPattern, rnDone, offRun>>

\* parse_args: one turn of `for arg in parsed.args`
RunArg ==
    /\ rnPc = "args"
    /\ rnDone < Len(rnParsed)
    /\ rnDone' = rnDone + 1
    /\ rnPc' = CASE HandleArg(rnApp, rnParsed[rnDone + 1]).kind = "panic" -> "panicked"
                 [] HandleArg(rnApp, rnParsed[rnDone + 1]).kind = "exit"  -> "exited"
                 [] OTHER -> "args"
    /\ rnApp' = HandleArg(rnApp, rnParsed[rnDone + 1]).app
    /\ IF rnParsed[rnDone + 1].name = "output"
           /\ HandleArg(rnApp, rnParsed[rnDone + 1]).kind = "next"
       THEN rnBefore' = rnApp.output /\ rnPattern' = rnParsed[rnDone + 1].values[1]
       ELSE UNCHANGED <<rnBefore, rnPattern>>
    /\ UNCHANGED <<rnConfig, rnArgv, rnParsed, offRun>>

\* run: if !self.output.any_enabled() { self.output.enable(OutputKind::Symbols) }
RunDefault ==
    /\ rnPc = "args"
    /\ rnDone = Len(rnParsed)
    /\ rnPc' = "ready"
    /\ rnApp' = IF AnyEnabled(rnApp.output) THEN rnApp
                ELSE [rnApp EXCEPT !.output = Enable(@, "Symbols")]
    /\ UNCHANGED <<rnConfig, rnArgv, rnParsed, rnDone, rnBefore, rnPattern, offRun>>

(***************************************************************************)
(* table.rs: a table of rows; main.rs: the four tables                     *)
(***************************************************************************)
RECURSIVE ToRadix(_, _)
\* the digits of n
ToRadix(n, radix) ==
    IF n < radix THEN <<HexDigitChars[n + 1]>>
    ELSE ToRadix(n \div radix, radix) \o <<HexDigitChars[(n % radix) + 1]>>

RECURSIVE ZeroPadded(_, _)
ZeroPadded(s, w) == IF Len(s) >= w THEN s ELSE ZeroPadded(<<"0">> \o s, w)

\* format!("{}", n)
FormatUsize(n) == ToRadix(n, 10)

\* format!("0x{:08x}", n)
FormatHex08(n) == <<"0", "x">> \o ZeroPadded(ToRadix(n, 16), 8)

\* the value in hundredths, rounded to the nearest
Hundredths(r) == (200 * r.num + r.den) \div (2 * r.den)

\* format!("{:.02}", x)
FormatF32(r) ==
    CASE r.kind = "nan" -> <<"N", "a", "N">>
      [] r.kind = "inf" -> <<"i", "n", "f">>
      [] OTHER -> FormatUsize(Hundredths(r) \div 100) \o <<".">>
                      \o ZeroPadded(FormatUsize(Hundredths(r) % 100), 2)

\* const DEFAULT_MAX_TERM_COLS
DEFAULT_MAX_TERM_COLS == 80

\* util::term_width(): no terminal, or a terminal of 120 columns
TermWidths == {DEFAULT_MAX_TERM_COLS, 120 - 1}

RECURSIVE HeaderWidths(_, _, _, _)
\* Table::new: the loop over the header from value k on
HeaderWidths(vals, k, size, maxw) ==
    IF k > Len(vals) THEN <<>>
    ELSE <<Min({Len(vals[k]), maxw - size})>>
             \o HeaderWidths(vals, k + 1, size + Min({Len(vals[k]), maxw - size}), maxw)

\* Table::with_header_and_padding(header, paddings), max_width from the
\* terminal
TableNew(header, maxw) ==
    [header |-> header, rows |-> <<>>, widths |-> HeaderWidths(header, 1, 0, maxw),
     max_width |-> maxw]

\* fn check_row: TRUE for Ok
CheckRow(t, row) == ~(t.header # <<>> /\ Len(row) # Len(t.header))

ColPanic == [panic |-> TRUE, widths |-> <<>>, size |-> 0]

\* r - 1
SubOne(r, bld) == IF r.panic THEN r ELSE SubUsize(r.val, 1, bld)

\* size + r
AddTo(size, r, bld) == IF r.panic THEN r ELSE AddUsize(size, r.val, bld)

\* col_size once trimmed: sum is size + col_size
TrimTo(len, sum, size, maxw, bld) ==
    IF sum.panic THEN sum
    ELSE IF sum.val > maxw THEN SubOne(SubUsize(maxw, size, bld), bld)
    ELSE [panic |-> FALSE, val |-> len]

\* size += col_size + 1
Advanced(widths, size, col, bld) ==
    [panic  |-> AddTo(size, AddUsize(col, 1, bld), bld).panic,
     widths |-> widths,
     size   |-> AddTo(size, AddUsize(col, 1, bld), bld).val]

\* the else branch of `if col_size > self.widths[i]`: sum is size + widths[i]
Cached(widths, i, size, col, sum, maxw, bld) ==
    IF sum.panic THEN ColPanic
    ELSE IF sum.val > maxw THEN Advanced([widths EXCEPT ![i] = col], size, col, bld)
    ELSE Advanced(widths, size, widths[i], bld)

\* the body of the loop of push_row for column i, col the trimmed col_size;
\* self.widths[i] past the end of widths panics
Column(widths, i, size, col, maxw, bld) ==
    IF col.panic \/ i > Len(widths) THEN ColPanic
    ELSE IF col.val > widths[i] THEN Advanced([widths EXCEPT ![i] = col.val], size, col.val, bld)
    ELSE Cached(widths, i, size, col.val, AddUsize(size, widths[i], bld), maxw, bld)

RECURSIVE PushColumns(_, _, _, _, _)
\* the loop of push_row from column i on
PushColumns(row, i, st, maxw, bld) ==
    IF st.panic \/ i > Len(row) THEN st
    ELSE PushColumns(row, i + 1,
                     Column(st.widths, i, st.size,
                            TrimTo(Len(row[i]), AddUsize(st.size, Len(row[i]), bld),
                                   st.size, maxw, bld),
                            maxw, bld),
                     maxw, bld)

\* self.rows.push(row); Ok(())
RowPushed(t, row, st) ==
    IF st.panic THEN [kind |-> "Panic", table |-> t]
    ELSE [kind |-> "Ok", table |-> [t EXCEPT !.widths = st.widths, !.rows = Append(@, row)]]

\* pub fn push_row(&mut self, row: Row) -> Result<(), String>
PushRow(t, row, bld) ==
    IF ~CheckRow(t, row) THEN [kind |-> "Err", table |-> t]
    ELSE RowPushed(t, row,
                PushColumns(row, 1, [panic |-> FALSE, widths |-> t.widths, size |-> 0],
                            t.max_width, bld))

RECURSIVE PushRows(_, _, _, _)
\* for .. { .. table.push_row(row).unwrap(); } from row k on: an Err of
\* push_row is a panic of the unwrap
PushNext(r, rows, k, bld) ==
    IF r.kind # "Ok" THEN [panic |-> TRUE, table |-> r.table]
    ELSE PushRows(r.table, rows, k + 1, bld)

PushRows(t, rows, k, bld) ==
    IF k > Len(rows) THEN [panic |-> FALSE, table |-> t]
    ELSE PushNext(PushRow(t, rows[k], bld), rows, k, bld)

\* push_into_header_and_padding_color, push_into_row_color, push_into_row:
\* the value is pushed when the column is enabled (the colours are left out)
PushInto(out, kind, field, str) == IF FieldEnabled(out, kind, field) THEN <<str>> ELSE <<>>

\* |s1, s2| if <order on sizes> { Less } else { Greater } gave Less
SizeLess(order, a, b) == IF order = "Ascending" THEN a.size < b.size ELSE a.size > b.size

\* the closure sort_symbols hands to sort_by: Less or Greater, never Equal
Compare(order, s1, s2) == IF SizeLess(order, s1, s2) THEN "Less" ELSE "Greater"

RECURSIVE InsertTail(_, _, _)
\* sort_by on a short slice is an insertion sort: the new element moves left
\* while the comparison gives Less
InsertTail(sorted, s, order) ==
    IF sorted = <<>> THEN <<s>>
    ELSE IF Compare(order, s, sorted[Len(sorted)]) = "Less"
    THEN Append(InsertTail(SubSeq(sorted, 1, Len(sorted) - 1), s, order), sorted[Len(sorted)])
    ELSE Append(sorted, s)

RECURSIVE SortFrom1(_, _, _, _)
SortFrom1(sorted, seq, k, order) ==
    IF k > Len(seq) THEN sorted
    ELSE SortFrom1(InsertTail(sorted, seq[k], order), seq, k + 1, order)

\* if let Some(order) = .. { .. sort_by(..) }
SortBySize(seq, order) == IF order = "None" THEN seq ELSE SortFrom1(<<>>, seq, 1, order)

\* self.filter.captures(&name) is Some: the filters are `.+` and plain words
Contains(name, word) ==
    \E k \in 1..(Len(name) - Len(word) + 1) : SubSeq(name, k, k + Len(word) - 1) = word

Matches(filter, name) == IF filter = <<".", "+">> THEN name # <<>> ELSE Contains(name, filter)

\* has_crate_names
HasCrateNames(symbols) == \E k \in 1..Len(symbols) : symbols[k].crate_name # <<"?">>

\* if !has_crate_names { field_disable(Symbols, Crate); disable(Crates) }
OutputForSymbols(out, symbols) ==
    IF HasCrateNames(symbols) THEN out
    ELSE Disable(FieldDisable(out, "Symbols", 8), "Crates")

RECURSIVE SizeSum(_, _)
\* .fold(0, |r, s| r + s.size)
SizeSum(symbols, k) == IF k > Len(symbols) THEN 0 ELSE symbols[k].size + SizeSum(symbols, k + 1)

\* let total: the sizes of the symbols whose names the filter matches
Total(symbols, filter) == SizeSum(SelectSeq(symbols, LAMBDA s : Matches(filter, s.name)), 1)

\* sym.size as f32 / (total as f32 / 100.0)
SymbolPercentage(size, total) == F32DivBy(AsF32(size), F32Div(AsF32(total), AsF32(100)))

\* impl Display for SymbolKind
KindText(kind) ==
    CASE kind = "Function" -> <<"F", "U", "N", "C">>
      [] kind = "Data"     -> <<"D", "A", "T", "A">>
      [] OTHER             -> <<"U", "N", "K", " ">>

SymbolHeader(out) ==
    PushInto(out, "Symbols", 1, <<"S", "i", "z", "e", " ">>) \o PushInto(out, "Symbols", 2, <<"P", "e", "r", "c", "e", "n", "t", "a", "g", "e", " ">>)
        \o PushInto(out, "Symbols", 4, <<"S", "y", "m", "b", "o", "l", " ", "K", "i", "n", "d", " ">>)
        \o PushInto(out, "Symbols", 8, <<"C", "r", "a", "t", "e", " ", "N", "a", "m", "e", " ">>)
        \o PushInto(out, "Symbols", 16, <<"S", "y", "m", "b", "o", "l", " ", "N", "a", "m", "e", " ">>)

SymbolRow(out, sym, total) ==
    PushInto(out, "Symbols", 1, FormatUsize(sym.size) \o <<" ">>)
        \o PushInto(out, "Symbols", 2,
                    FormatF32(SymbolPercentage(sym.size, total)) \o <<"%", " ">>)
        \o PushInto(out, "Symbols", 4, KindText(sym.kind) \o <<" ">>)
        \o PushInto(out, "Symbols", 8, sym.crate_name \o <<" ">>)
        \o PushInto(out, "Symbols", 16, sym.name \o <<" ">>)

\* the symbols that get a row
Shown(symbols, filter) == SelectSeq(symbols, LAMBDA s : s.size # 0 /\ Matches(filter, s.name))

SymbolRows(out, symbols, filter) ==
    [k \in 1..Len(Shown(symbols, filter)) |->
         SymbolRow(out, Shown(symbols, filter)[k], Total(symbols, filter))]

\* dump_symbols once the symbols are sorted and the crate columns settled
SymbolTable(out, symbols, filter, maxw, bld) ==
    PushRows(TableNew(SymbolHeader(out), maxw), SymbolRows(out, symbols, filter), 1, bld)

\* the keys of the HashMap of dump_crates
CrateKeys(symbols) == {symbols[k].crate_name : k \in 1..Len(symbols)}

\* its value for a key
CrateSize(symbols, name) == SizeSum(SelectSeq(symbols, LAMBDA s : s.crate_name = name), 1)

\* crates.iter().collect(): the entries in one of the orders a HashMap may
\* give them
CrateOrders(symbols) ==
    { [k \in 1..Cardinality(CrateKeys(symbols)) |->
           [name |-> f[k], size |-> CrateSize(symbols, f[k])]] :
          f \in { g \in [1..Cardinality(CrateKeys(symbols)) -> CrateKeys(symbols)] :
                      \A i, j \in DOMAIN g : g[i] = g[j] => i = j } }

\* both header columns are pushed under CrateTableFields::Size
CrateHeader(out) ==
    PushInto(out, "Crates", 2, <<"C", "r", "a", "t", "e", " ", "N", "a", "m", "e", " ">>) \o PushInto(out, "Crates", 2, <<"S", "i", "z", "e", " ">>)

CrateRow(out, entry) ==
    PushInto(out, "Crates", 1, entry.name \o <<" ">>)
        \o PushInto(out, "Crates", 2, FormatUsize(entry.size) \o <<" ">>)

\* dump_crates for the entries in the order the map gave them
CrateTable(out, entries, order, maxw, bld) ==
    PushRows(TableNew(CrateHeader(out), maxw),
             [k \in 1..Len(entries) |-> CrateRow(out, SortBySize(entries, order)[k])], 1, bld)

SectionHeader(out) ==
    PushInto(out, "Sections", 1, <<"N", "a", "m", "e", " ">>) \o PushInto(out, "Sections", 2, <<"A", "d", "d", "r", "e", "s", "s", " ">>)
        \o PushInto(out, "Sections", 4, <<"S", "i", "z", "e", " ">>)

SectionRow(out, section) ==
    PushInto(out, "Sections", 1, section.name \o <<" ">>)
        \o PushInto(out, "Sections", 2, FormatHex08(section.addr) \o <<" ">>)
        \o PushInto(out, "Sections", 4, FormatUsize(section.size) \o <<" ">>)

\* dump_sections
SectionTable(out, sections, maxw, bld) ==
    PushRows(TableNew(SectionHeader(out), maxw),
             [k \in 1..Len(sections) |-> SectionRow(out, sections[k])], 1, bld)

SegmentHeader(out) ==
    PushInto(out, "Segments", 1, <<"N", "a", "m", "e", " ">>) \o PushInto(out, "Segments", 2, <<"A", "d", "d", "r", "e", "s", "s", " ">>)
        \o PushInto(out, "Segments", 4, <<"U", "s", "e", "d", " ">>) \o PushInto(out, "Segments", 8, <<"S", "i", "z", "e", " ">>)
        \o PushInto(out, "Segments", 16, <<"P", "e", "r", "c", "e", "n", "t", "a", "g", "e", " ">>)

SegmentRow(out, reg) ==
    PushInto(out, "Segments", 1, reg.name \o <<" ">>)
        \o PushInto(out, "Segments", 2, FormatHex08(reg.origin) \o <<" ">>)
        \o PushInto(out, "Segments", 4, FormatUsize(reg.used) \o <<" ">>)
        \o PushInto(out, "Segments", 8, FormatUsize(reg.length) \o <<" ">>)
        \o PushInto(out, "Segments", 16, FormatF32(reg.used_percentage) \o <<"%", " ">>)

\* the loop of dump_segments, used what use_segments_data left
SegmentRows(out, used, maxw, bld) ==
    IF used.tag # "Ok" THEN [panic |-> TRUE, table |-> TableNew(SegmentHeader(out), maxw)]
    ELSE PushRows(TableNew(SegmentHeader(out), maxw),
                  [k \in 1..Len(used.val) |-> SegmentRow(out, used.val[k])], 1, bld)

\* dump_segments when ld_file is set: from_file(..).expect(..), then
\* use_segments_data, then the rows
SegmentTable(out, parsed, loaded, maxw, bld) ==
    IF parsed.failed THEN [panic |-> TRUE, table |-> TableNew(SegmentHeader(out), maxw)]
    ELSE SegmentRows(out, UseSegments(parsed.regions, loaded, bld), maxw, bld)

\* the symbols exe::parse may have returned
DumpSymbol(name, crate, size, kind) ==
    [name |-> name, crate_name |-> crate, size |-> size, kind |-> kind]

SymWrite == DumpSymbol(<<"c", "o", "r", "e", ":", ":", "f", "m", "t", ":", ":", "w", "r", "i", "t", "e">>, <<"c", "o", "r", "e">>, 100, "Function")
SymLen   == DumpSymbol(<<"c", "o", "r", "e", ":", ":", "s", "t", "r", ":", ":", "l", "e", "n">>, <<"c", "o", "r", "e">>, 300, "Function")
SymBuf   == DumpSymbol(<<"a", "p", "p", ":", ":", "B", "U", "F">>, <<"a", "p", "p">>, 600, "Data")
SymZero  == DumpSymbol(<<"a", "p", "p", ":", ":", "Z", "E", "R", "O">>, <<"a", "p", "p">>, 0, "Unknown")
SymMain  == DumpSymbol(<<"m", "a", "i", "n">>, <<"?">>, 100, "Function")

DumpSymbolLists ==
    { <<>>, <<SymMain>>, <<SymWrite, SymLen, SymBuf>>, <<SymBuf, SymZero, SymLen>>,
      <<SymMain, SymBuf, SymWrite>> }

DumpSections ==
    << [name |-> <<".", "t", "e", "x", "t">>, addr |-> 134217728, size |-> 1000],
       [name |-> <<".", "b", "s", "s">>, addr |-> 536870912, size |-> 64] >>

DumpSegments == << [addr |-> 0, size |-> 1], [addr |-> 100, size |-> 4] >>

DumpExes ==
    { [symbols |-> l, sections |-> DumpSections, segments |-> DumpSegments] :
          l \in DumpSymbolLists }

\* self.ld_file and what from_file returns for it: the regions, or an Err
NoLdFile == [ld_file |-> <<>>, failed |-> FALSE, regions |-> <<>>]

DumpLdFiles ==
    { NoLdFile,
      [ld_file |-> <<"m", "e", "m", "o", "r", "y", ".", "x">>, failed |-> FALSE,
       regions |-> <<NewRegion(wFLASH, 0, 1000), NewRegion(wRAM, 100, 200)>>],
      [ld_file |-> <<"e", "m", "p", "t", "y", ".", "x">>, failed |-> FALSE, regions |-> <<NewRegion(wRAM, 0, 0)>>],
      [ld_file |-> <<"m", "i", "s", "s", "i", "n", "g", ".", "x">>, failed |-> TRUE, regions |-> <<>>] }

\* self.filter: the default, and a word
DumpFilters == {<<".", "+">>, <<"c", "o", "r", "e">>}

\* the documented column names of each table
ColumnNames ==
    [Symbols  |-> <<<<"s", "i", "z", "e">>, <<"p", "e", "r", "c", "e", "n", "t">>, <<"k", "i", "n", "d">>, <<"c", "r", "a", "t", "e">>, <<"n", "a", "m", "e">>>>,
     Crates   |-> <<<<"n", "a", "m", "e">>, <<"s", "i", "z", "e">>>>,
     Sections |-> <<<<"n", "a", "m", "e">>, <<"a", "d", "d", "r">>, <<"s", "i", "z", "e">>>>,
     Segments |-> <<<<"n", "a", "m", "e">>, <<"a", "d", "d", "r">>, <<"u", "s", "e", "d">>, <<"s", "i", "z", "e">>, <<"p", "e", "r", "c", "e", "n", "t">>>>]

TableWords ==
    [Symbols |-> <<"s", "y", "m", "b", "o", "l", "s">>, Crates |-> <<"c", "r", "a", "t", "e", "s">>, Sections |-> <<"s", "e", "c", "t", "i", "o", "n", "s">>,
     Segments |-> <<"s", "e", "g", "m", "e", "n", "t", "s">>]

RECURSIVE Listed(_, _, _)
\* the names at the positions of S from k on, with `,` between them
Listed(names, S, k) ==
    IF k > Len(names) THEN <<>>
    ELSE IF k \notin S THEN Listed(names, S, k + 1)
    ELSE IF \E j \in S : j > k THEN names[k] \o <<",">> \o Listed(names, S, k + 1)
    ELSE names[k]

\* `table=columns` for every table and every selection of its columns
SelectionPatterns ==
    UNION { { TableWords[t] \o <<"=">> \o Listed(ColumnNames[t], S, 1) :
                  S \in (SUBSET (1..Len(ColumnNames[t]))) \ {{}} } : t \in TableKinds }

\* the output settings of a run: every table, one table with a selection of
\* its columns, or every table with a selection for the crate table
DumpPatternLists ==
    {<<<<"a", "l", "l">>>>} \cup {<<p>> : p \in SelectionPatterns}
        \cup {<<<<"a", "l", "l">>, p>> : p \in {q \in SelectionPatterns : StartsWith(q, TableWords.Crates)}}

Patterned(ps) ==
    ApplyAll([panic |-> FALSE, out |-> DefaultOutput, before |-> DefaultOutput,
              pattern |-> NoPattern], ps, 1).out

DumpOutputs == {Patterned(ps) : ps \in DumpPatternLists}

NoTable == [kind |-> "None", panic |-> FALSE, header |-> <<>>, rows |-> <<>>]

\* what a dump leaves on the screen
Dumped(kind, r) ==
    [kind |-> kind, panic |-> r.panic, header |-> r.table.header, rows |-> r.table.rows]

\* if self.output.enabled(Symbols) { self.dump_symbols() }
DumpSymbols ==
    /\ dpPc = "symbols"
    /\ IF Enabled(dpOutput, "Symbols")
       THEN /\ dpExe' = [dpExe EXCEPT !.symbols = SortBySize(@, dpSort)]
            /\ dpOutput' = OutputForSymbols(dpOutput, dpExe.symbols)
            /\ dpTable' = Dumped("Symbols",
                                 SymbolTable(OutputForSymbols(dpOutput, dpExe.symbols),
                                             SortBySize(dpExe.symbols, dpSort), dpFilter,
                                             dpWidth, dpBuild))
            /\ dpPc' = IF SymbolTable(OutputForSymbols(dpOutput, dpExe.symbols),
                                      SortBySize(dpExe.symbols, dpSort), dpFilter,
                                      dpWidth, dpBuild).panic
                       THEN "panicked" ELSE "crates"
       ELSE /\ dpPc' = "crates"
            /\ dpTable' = NoTable
            /\ UNCHANGED <<dpExe, dpOutput>>
    /\ UNCHANGED <<dpBuild, dpFilter, dpSort, dpLd, dpWidth, offDump>>

\* if self.output.enabled(Crates) { self.dump_crates() }
DumpCrates ==
    /\ dpPc = "crates"
    /\ IF Enabled(dpOutput, "Crates")
       THEN \E entries \in CrateOrders(dpExe.symbols) :
                /\ dpTable' = Dumped("Crates",
                                     CrateTable(dpOutput, entries, dpSort, dpWidth, dpBuild))
                /\ dpPc' = IF CrateTable(dpOutput, entries, dpSort, dpWidth, dpBuild).panic
                           THEN "panicked" ELSE "sections"
       ELSE dpPc' = "sections" /\ dpTable' = NoTable
    /\ UNCHANGED <<dpBuild, dpOutput, dpFilter, dpSort, dpLd, dpExe, dpWidth, offDump>>

\* if self.output.enabled(Sections) { self.dump_sections() }
DumpSectionTable ==
    /\ dpPc = "sections"
    /\ IF Enabled(dpOutput, "Sections")
       THEN /\ dpTable' = Dumped("Sections",
                                 SectionTable(dpOutput, dpExe.sections, dpWidth, dpBuild))
            /\ dpPc' = IF SectionTable(dpOutput, dpExe.sections, dpWidth, dpBuild).panic
                       THEN "panicked" ELSE "segments"
       ELSE dpPc' = "segments" /\ dpTable' = NoTable
    /\ UNCHANGED <<dpBuild, dpOutput, dpFilter, dpSort, dpLd, dpExe, dpWidth, offDump>>

\* if self.output.enabled(Segments) { self.dump_segments() }: dump_segments
\* returns at once when ld_file is empty
DumpSegmentTable ==
    /\ dpPc = "segments"
    /\ IF Enabled(dpOutput, "Segments") /\ dpLd.ld_file # <<>>
       THEN /\ dpTable' = Dumped("Segments",
                                 SegmentTable(dpOutput, dpLd, dpExe.segments,
                                              dpWidth, dpBuild))
            /\ dpPc' = IF SegmentTable(dpOutput, dpLd, dpExe.segments,
                                       dpWidth, dpBuild).panic
                       THEN "panicked" ELSE "done"
       ELSE dpPc' = "done" /\ dpTable' = NoTable
    /\ UNCHANGED <<dpBuild, dpOutput, dpFilter, dpSort, dpLd, dpExe, dpWidth, offDump>>

(***************************************************************************)
(* table.rs: a table and the rows pushed into it                           *)
(***************************************************************************)
MaxWidth == 4      \* the widths given to Table::new are 0..MaxWidth
MaxCell  == 5      \* the longest cell

\* a cell of n characters
Cell(n) == [i \in 1..n |-> "x"]

\* headers of one to three columns, titled or not
Headers == UNION { [1..n -> {Cell(0), Cell(2)}] : n \in 1..3 }

\* rows of one to three cells: empty, of one character, and long
Rows == UNION { [1..n -> {Cell(0), Cell(1), Cell(MaxCell)}] : n \in 1..3 }

NoTableYet == [header |-> <<>>, rows |-> <<>>, widths |-> <<>>, max_width |-> 0]

\* max_width: if max_width == 0 { util::term_width() } else { max_width },
\* with no terminal
MaxWidthOr(max_width) == IF max_width = 0 THEN DEFAULT_MAX_TERM_COLS ELSE max_width

\* Table::new(header, padding, &[], max_width)
TableCreate ==
    /\ tbPc = "new"
    /\ tbTable' = TableNew(tbHeader, MaxWidthOr(tbMax))
    /\ tbPc' = "ready"
    /\ UNCHANGED <<tbBuild, tbMax, tbHeader, tbRow, tbResult, offTable>>

\* table.push_row(row), twice at most; a panic ends the program
TablePush ==
    /\ tbPc \in {"ready", "once"}
    /\ tbResult # "Panic"
    /\ \E row \in Rows :
           /\ tbRow' = row
           /\ tbResult' = PushRow(tbTable, row, tbBuild).kind
           /\ tbTable' = PushRow(tbTable, row, tbBuild).table
    /\ tbPc' = IF tbPc = "ready" THEN "once" ELSE "twice"
    /\ UNCHANGED <<tbBuild, tbMax, tbHeader, offTable>>

(***************************************************************************)
(* Specifications                                                          *)
(***************************************************************************)
\* exe::parse is called on a file; nothing else runs
ExeInit ==
    /\ exePc = "call" /\ file \in Files /\ exe = NotCalled
    /\ ldPc = "idle" /\ ldFile = Unreadable /\ build = "debug" /\ lines = <<>>
    /\ lineNo = 0 /\ vars = NoVars /\ regions = <<>> /\ ldResult = NoResult
    /\ dcPc = "idle" /\ dcVars = NoVars /\ dcA = <<>> /\ dcB = <<>>
    /\ dcBuild = "debug" /\ dcValue = NoOutcome /\ dcFwd = NoOutcome /\ dcSwp = NoOutcome
    /\ usPc = "idle" /\ usBuild = "debug" /\ usRegions = <<>> /\ usSegments = <<>>
    /\ usResult = NotUsed
    /\ nmPc = "idle" /\ nmBuild = "debug" /\ nmRaw = <<>> /\ nmText = <<>>
    /\ nmSymbol = NoSymbol /\ nmCrate = <<>> /\ nmExe = NoNames
    /\ rnPc = "idle" /\ rnConfig = NoConfig /\ rnArgv = <<>> /\ rnParsed = <<>> /\ rnDone = 0
    /\ rnApp = NewBinsize /\ rnBefore = DefaultOutput /\ rnPattern = NoPattern
    /\ dpPc = "idle" /\ dpBuild = "debug" /\ dpOutput = DefaultOutput /\ dpFilter = <<>>
    /\ dpSort = "None" /\ dpLd = NoLdFile /\ dpExe = [symbols |-> <<>>, sections |-> <<>>, segments |-> <<>>]
    /\ dpWidth = DEFAULT_MAX_TERM_COLS /\ dpTable = NoTable
    /\ tbPc = "idle" /\ tbBuild = "debug" /\ tbMax = 0 /\ tbHeader = <<>>
    /\ tbTable = NoTableYet /\ tbRow = <<>> /\ tbResult = "None"

\* MemoryRegion::from_file is called on a linker script; nothing else runs
LinkInit ==
    /\ exePc = "idle" /\ file = NoFile /\ exe = NotCalled
    /\ ldPc = "read" /\ ldFile \in LdFiles /\ build \in Builds /\ lines = <<>>
    /\ lineNo = 0 /\ vars = NoVars /\ regions = <<>> /\ ldResult = NoResult
    /\ dcPc = "idle" /\ dcVars = NoVars /\ dcA = <<>> /\ dcB = <<>>
    /\ dcBuild = "debug" /\ dcValue = NoOutcome /\ dcFwd = NoOutcome /\ dcSwp = NoOutcome
    /\ usPc = "idle" /\ usBuild = "debug" /\ usRegions = <<>> /\ usSegments = <<>>
    /\ usResult = NotUsed
    /\ nmPc = "idle" /\ nmBuild = "debug" /\ nmRaw = <<>> /\ nmText = <<>>
    /\ nmSymbol = NoSymbol /\ nmCrate = <<>> /\ nmExe = NoNames
    /\ rnPc = "idle" /\ rnConfig = NoConfig /\ rnArgv = <<>> /\ rnParsed = <<>> /\ rnDone = 0
    /\ rnApp = NewBinsize /\ rnBefore = DefaultOutput /\ rnPattern = NoPattern
    /\ dpPc = "idle" /\ dpBuild = "debug" /\ dpOutput = DefaultOutput /\ dpFilter = <<>>
    /\ dpSort = "None" /\ dpLd = NoLdFile /\ dpExe = [symbols |-> <<>>, sections |-> <<>>, segments |-> <<>>]
    /\ dpWidth = DEFAULT_MAX_TERM_COLS /\ dpTable = NoTable
    /\ tbPc = "idle" /\ tbBuild = "debug" /\ tbMax = 0 /\ tbHeader = <<>>
    /\ tbTable = NoTableYet /\ tbRow = <<>> /\ tbResult = "None"

\* parse_value and parse_region are given a variable table and two value words
DeclInit ==
    /\ exePc = "idle" /\ file = NoFile /\ exe = NotCalled
    /\ ldPc = "idle" /\ ldFile = Unreadable /\ build = "debug" /\ lines = <<>>
    /\ lineNo = 0 /\ vars = NoVars /\ regions = <<>> /\ ldResult = NoResult
    /\ dcPc = "input" /\ dcVars \in VarTables /\ dcA \in ValueWords /\ dcB \in ValueWords
    /\ dcBuild \in Builds /\ dcValue = NoOutcome /\ dcFwd = NoOutcome /\ dcSwp = NoOutcome
    /\ usPc = "idle" /\ usBuild = "debug" /\ usRegions = <<>> /\ usSegments = <<>>
    /\ usResult = NotUsed
    /\ nmPc = "idle" /\ nmBuild = "debug" /\ nmRaw = <<>> /\ nmText = <<>>
    /\ nmSymbol = NoSymbol /\ nmCrate = <<>> /\ nmExe = NoNames
    /\ rnPc = "idle" /\ rnConfig = NoConfig /\ rnArgv = <<>> /\ rnParsed = <<>> /\ rnDone = 0
    /\ rnApp = NewBinsize /\ rnBefore = DefaultOutput /\ rnPattern = NoPattern
    /\ dpPc = "idle" /\ dpBuild = "debug" /\ dpOutput = DefaultOutput /\ dpFilter = <<>>
    /\ dpSort = "None" /\ dpLd = NoLdFile /\ dpExe = [symbols |-> <<>>, sections |-> <<>>, segments |-> <<>>]
    /\ dpWidth = DEFAULT_MAX_TERM_COLS /\ dpTable = NoTable
    /\ tbPc = "idle" /\ tbBuild = "debug" /\ tbMax = 0 /\ tbHeader = <<>>
    /\ tbTable = NoTableYet /\ tbRow = <<>> /\ tbResult = "None"

\* use_segments_data is given freshly parsed regions and the segments of an executable
UseInit ==
    /\ exePc = "idle" /\ file = NoFile /\ exe = NotCalled
    /\ ldPc = "idle" /\ ldFile = Unreadable /\ build = "debug" /\ lines = <<>>
    /\ lineNo = 0 /\ vars = NoVars /\ regions = <<>> /\ ldResult = NoResult
    /\ dcPc = "idle" /\ dcVars = NoVars /\ dcA = <<>> /\ dcB = <<>>
    /\ dcBuild = "debug" /\ dcValue = NoOutcome /\ dcFwd = NoOutcome /\ dcSwp = NoOutcome
    /\ usPc = "call" /\ usBuild \in Builds /\ usRegions \in RegionLists
    /\ usSegments \in SegmentLists /\ usResult = NotUsed
    /\ nmPc = "idle" /\ nmBuild = "debug" /\ nmRaw = <<>> /\ nmText = <<>>
    /\ nmSymbol = NoSymbol /\ nmCrate = <<>> /\ nmExe = NoNames
    /\ rnPc = "idle" /\ rnConfig = NoConfig /\ rnArgv = <<>> /\ rnParsed = <<>> /\ rnDone = 0
    /\ rnApp = NewBinsize /\ rnBefore = DefaultOutput /\ rnPattern = NoPattern
    /\ dpPc = "idle" /\ dpBuild = "debug" /\ dpOutput = DefaultOutput /\ dpFilter = <<>>
    /\ dpSort = "None" /\ dpLd = NoLdFile /\ dpExe = [symbols |-> <<>>, sections |-> <<>>, segments |-> <<>>]
    /\ dpWidth = DEFAULT_MAX_TERM_COLS /\ dpTable = NoTable
    /\ tbPc = "idle" /\ tbBuild = "debug" /\ tbMax = 0 /\ tbHeader = <<>>
    /\ tbTable = NoTableYet /\ tbRow = <<>> /\ tbResult = "None"

\* the demangling functions are given a raw name and a demangled name
NameInit ==
    /\ exePc = "idle" /\ file = NoFile /\ exe = NotCalled
    /\ ldPc = "idle" /\ ldFile = Unreadable /\ build = "debug" /\ lines = <<>>
    /\ lineNo = 0 /\ vars = NoVars /\ regions = <<>> /\ ldResult = NoResult
    /\ dcPc = "idle" /\ dcVars = NoVars /\ dcA = <<>> /\ dcB = <<>>
    /\ dcBuild = "debug" /\ dcValue = NoOutcome /\ dcFwd = NoOutcome /\ dcSwp = NoOutcome
    /\ usPc = "idle" /\ usBuild = "debug" /\ usRegions = <<>> /\ usSegments = <<>>
    /\ usResult = NotUsed
    /\ nmPc = "input" /\ nmBuild \in Builds /\ nmRaw \in DemangleInputs /\ nmText \in DemangledNames
    /\ nmSymbol = NoSymbol /\ nmCrate = <<>> /\ nmExe = NoNames
    /\ rnPc = "idle" /\ rnConfig = NoConfig /\ rnArgv = <<>> /\ rnParsed = <<>> /\ rnDone = 0
    /\ rnApp = NewBinsize /\ rnBefore = DefaultOutput /\ rnPattern = NoPattern
    /\ dpPc = "idle" /\ dpBuild = "debug" /\ dpOutput = DefaultOutput /\ dpFilter = <<>>
    /\ dpSort = "None" /\ dpLd = NoLdFile /\ dpExe = [symbols |-> <<>>, sections |-> <<>>, segments |-> <<>>]
    /\ dpWidth = DEFAULT_MAX_TERM_COLS /\ dpTable = NoTable
    /\ tbPc = "idle" /\ tbBuild = "debug" /\ tbMax = 0 /\ tbHeader = <<>>
    /\ tbTable = NoTableYet /\ tbRow = <<>> /\ tbResult = "None"

\* binsize is started with a config file and a command line
RunInit ==
    /\ exePc = "idle" /\ file = NoFile /\ exe = NotCalled
    /\ ldPc = "idle" /\ ldFile = Unreadable /\ build = "debug" /\ lines = <<>>
    /\ lineNo = 0 /\ vars = NoVars /\ regions = <<>> /\ ldResult = NoResult
    /\ dcPc = "idle" /\ dcVars = NoVars /\ dcA = <<>> /\ dcB = <<>>
    /\ dcBuild = "debug" /\ dcValue = NoOutcome /\ dcFwd = NoOutcome /\ dcSwp = NoOutcome
    /\ usPc = "idle" /\ usBuild = "debug" /\ usRegions = <<>> /\ usSegments = <<>>
    /\ usResult = NotUsed
    /\ nmPc = "idle" /\ nmBuild = "debug" /\ nmRaw = <<>> /\ nmText = <<>>
    /\ nmSymbol = NoSymbol /\ nmCrate = <<>> /\ nmExe = NoNames
    /\ rnPc = "start" /\ rnConfig \in Configs /\ rnArgv \in CommandLines
    /\ rnParsed = <<>> /\ rnDone = 0
    /\ rnApp = NewBinsize /\ rnBefore = DefaultOutput /\ rnPattern = NoPattern
    /\ dpPc = "idle" /\ dpBuild = "debug" /\ dpOutput = DefaultOutput /\ dpFilter = <<>>
    /\ dpSort = "None" /\ dpLd = NoLdFile /\ dpExe = [symbols |-> <<>>, sections |-> <<>>, segments |-> <<>>]
    /\ dpWidth = DEFAULT_MAX_TERM_COLS /\ dpTable = NoTable
    /\ tbPc = "idle" /\ tbBuild = "debug" /\ tbMax = 0 /\ tbHeader = <<>>
    /\ tbTable = NoTableYet /\ tbRow = <<>> /\ tbResult = "None"

\* the settings are read and the executable is loaded
DumpInit ==
    /\ exePc = "idle" /\ file = NoFile /\ exe = NotCalled
    /\ ldPc = "idle" /\ ldFile = Unreadable /\ build = "debug" /\ lines = <<>>
    /\ lineNo = 0 /\ vars = NoVars /\ regions = <<>> /\ ldResult = NoResult
    /\ dcPc = "idle" /\ dcVars = NoVars /\ dcA = <<>> /\ dcB = <<>>
    /\ dcBuild = "debug" /\ dcValue = NoOutcome /\ dcFwd = NoOutcome /\ dcSwp = NoOutcome
    /\ usPc = "idle" /\ usBuild = "debug" /\ usRegions = <<>> /\ usSegments = <<>>
    /\ usResult = NotUsed
    /\ nmPc = "idle" /\ nmBuild = "debug" /\ nmRaw = <<>> /\ nmText = <<>>
    /\ nmSymbol = NoSymbol /\ nmCrate = <<>> /\ nmExe = NoNames
    /\ rnPc = "idle" /\ rnConfig = NoConfig /\ rnArgv = <<>> /\ rnParsed = <<>> /\ rnDone = 0
    /\ rnApp = NewBinsize /\ rnBefore = DefaultOutput /\ rnPattern = NoPattern
    /\ dpPc = "symbols" /\ dpBuild \in Builds /\ dpOutput \in DumpOutputs
    /\ dpFilter \in DumpFilters /\ dpSort \in {"None", "Ascending", "Descending"}
    /\ dpLd \in DumpLdFiles /\ dpExe \in DumpExes /\ dpWidth \in TermWidths /\ dpTable = NoTable
    /\ tbPc = "idle" /\ tbBuild = "debug" /\ tbMax = 0 /\ tbHeader = <<>>
    /\ tbTable = NoTableYet /\ tbRow = <<>> /\ tbResult = "None"

\* a table is made from a header and rows are pushed into it
TableInit ==
    /\ exePc = "idle" /\ file = NoFile /\ exe = NotCalled
    /\ ldPc = "idle" /\ ldFile = Unreadable /\ build = "debug" /\ lines = <<>>
    /\ lineNo = 0 /\ vars = NoVars /\ regions = <<>> /\ ldResult = NoResult
    /\ dcPc = "idle" /\ dcVars = NoVars /\ dcA = <<>> /\ dcB = <<>>
    /\ dcBuild = "debug" /\ dcValue = NoOutcome /\ dcFwd = NoOutcome /\ dcSwp = NoOutcome
    /\ usPc = "idle" /\ usBuild = "debug" /\ usRegions = <<>> /\ usSegments = <<>>
    /\ usResult = NotUsed
    /\ nmPc = "idle" /\ nmBuild = "debug" /\ nmRaw = <<>> /\ nmText = <<>>
    /\ nmSymbol = NoSymbol /\ nmCrate = <<>> /\ nmExe = NoNames
    /\ rnPc = "idle" /\ rnConfig = NoConfig /\ rnArgv = <<>> /\ rnParsed = <<>> /\ rnDone = 0
    /\ rnApp = NewBinsize /\ rnBefore = DefaultOutput /\ rnPattern = NoPattern
    /\ dpPc = "idle" /\ dpBuild = "debug" /\ dpOutput = DefaultOutput /\ dpFilter = <<>>
    /\ dpSort = "None" /\ dpLd = NoLdFile /\ dpExe = [symbols |-> <<>>, sections |-> <<>>, segments |-> <<>>]
    /\ dpWidth = DEFAULT_MAX_TERM_COLS /\ dpTable = NoTable
    /\ tbPc = "new" /\ tbBuild \in Builds /\ tbMax \in 0..MaxWidth /\ tbHeader \in Headers
    /\ tbTable = NoTableYet /\ tbRow = <<>> /\ tbResult = "None"

ExeNext == ExeParse
LinkNext == LinkRead \/ LinkLine \/ LinkReturn
DeclNext == DeclValue \/ DeclForward \/ DeclSwapped
UseNext == UseSegmentsData \/ UseSegmentsDataAgain
NameNext == NameDemangle \/ NameCrate \/ NameExe
RunNext == RunParseConfig \/ RunParseArgs \/ RunArg \/ RunDefault
DumpNext == DumpSymbols \/ DumpCrates \/ DumpSectionTable \/ DumpSegmentTable
TableNext == TableCreate \/ TablePush

SpecExe == ExeInit /\ [][ExeNext]_allVars
SpecLink == LinkInit /\ [][LinkNext]_allVars
SpecDecl == DeclInit /\ [][DeclNext]_allVars
SpecUse == UseInit /\ [][UseNext]_allVars
SpecName == NameInit /\ [][NameNext]_allVars
SpecRun == RunInit /\ [][RunNext]_allVars
SpecDump == DumpInit /\ [][DumpNext]_allVars
SpecTable == TableInit /\ [][TableNext]_allVars

(***************************************************************************)
(* exe::parse: properties (SpecExe)                                        *)
(***************************************************************************)
\* the entries of the file's symbol table whose format kind is Text or Data
RetainedEntries == {n \in 1..Len(file.symbols) : file.symbols[n].kind \in {"Text", "Data"}}

\* the addresses of retained entries strictly above a
AddrsAbove(a) == {file.symbols[n].addr : n \in RetainedEntries} \ (0..a)

\* the size the format reported for symbol k of the model
ReportedSizeOf(k) == file.symbols[exe.symbols[k].entry].size

\* C1: every symbol of the ExecutableInfo that exe::parse returns has kind
\* Function or Data, and none of them was made from a symbol-table entry whose
\* format kind is neither Text nor Data.
C1_OnlyFunctionOrData ==
    exe.tag = "Ok" =>
        \A k \in 1..Len(exe.symbols) :
            /\ exe.symbols[k].kind \in {"Function", "Data"}
            /\ exe.symbols[k].entry \in RetainedEntries

C1_Witness ==
    /\ exe.tag = "Ok"
    /\ Len(exe.symbols) >= 1
    /\ \E n \in 1..Len(file.symbols) : file.symbols[n].kind = "Label"

\* C2: after the repair, a symbol whose reported size is 0 and above which
\* some retained symbol lies has size (smallest retained address strictly
\* above its own) - (its own address); so do all zero-size symbols that share
\* its address.
C2_ZeroSizeRepaired ==
    exe.tag = "Ok" =>
        \A k \in 1..Len(exe.symbols) :
            (ReportedSizeOf(k) = 0 /\ AddrsAbove(exe.symbols[k].addr) # {}) =>
                exe.symbols[k].size
                    = Min(AddrsAbove(exe.symbols[k].addr)) - exe.symbols[k].addr

C2_Witness ==
    /\ exe.tag = "Ok"
    /\ \E j, k \in 1..Len(exe.symbols) :
           /\ j # k
           /\ exe.symbols[j].addr = exe.symbols[k].addr
           /\ ReportedSizeOf(j) = 0 /\ ReportedSizeOf(k) = 0
           /\ AddrsAbove(exe.symbols[k].addr) # {}
           /\ exe.symbols[j].size > 0 /\ exe.symbols[j].size = exe.symbols[k].size

C4_ParseReturnsOk ==
    exePc = "returned" =>
        IF file.state = "object"
        THEN /\ exe.tag = "Ok"
             /\ exe.sections = file.sections
             /\ exe.segments = file.segments
        ELSE exe.tag = "Err"

(***************************************************************************)
(* MemoryRegion::from_file: properties (SpecLink)                          *)
(***************************************************************************)
\* the script of the lines ls has been parsed and from_file has returned
ParsedScript(ls) == ldPc = "returned" /\ ldFile = Text(ls)

OkRegions(rs) == [tag |-> "Ok", regions |-> rs]

\* C5 (as amended): the script of the three lines `__boot_size = 0x10000;`,
\* `MEMORY {` and `BOOTLOADER : ORIGIN = 0x8000000, LENGTH = __boot_size }`
\* yields exactly one region, BOOTLOADER, origin 0x8000000, length 65536. A
\* declaration is recognized only where it starts its line (after optional
\* white space): with `MEMORY {` before it on the same line it yields no region
\* and no error, and no script gets a region from a line that starts with
\* `MEMORY {`.
C5_DeclarationStartsItsLine ==
    /\ ParsedScript(<<A_boot, M_open, D_boot>>) =>
           ldResult = OkRegions(<<NewRegion(wBOOTLOADER, 134217728, 65536)>>)
    /\ ParsedScript(<<A_boot, M_boot>>) => ldResult = OkRegions(<<>>)
    /\ (ldPc = "returned" /\ ldResult.tag = "Ok") =>
           Len(ldResult.regions)
               <= Cardinality({k \in 1..Len(lines) : ~StartsWith(lines[k], M_open)})

C5_Witness ==
    /\ ParsedScript(<<A_boot, M_open, D_boot>>)
    /\ Len(ldResult.regions) = 1
    /\ ldResult.regions[1].name = wBOOTLOADER

\* C5 (as stated): the script `__boot_size = 0x10000;` /
\* `MEMORY { BOOTLOADER : ORIGIN = 0x8000000, LENGTH = __boot_size }` yields
\* exactly one region, BOOTLOADER, origin 0x8000000, length 65536.
C5_SameLineAsMemory ==
    ParsedScript(<<A_boot, M_boot>>) =>
        ldResult = OkRegions(<<NewRegion(wBOOTLOADER, 134217728, 65536)>>)

\* the names the scripts use for variables
VariableNames == {w__boot_size, w__slot_size, w__ROM}

\* the variables that the value words of a line refer to, for a line that one
\* of the two patterns recognizes
Uses(l) ==
    LET v == VariableCaptures(l)
        r == MemRegCaptures(l)
    IN  VariableNames \cap
            ((IF v.matched THEN {v.groups[2]} ELSE {})
                 \cup (IF r.matched THEN {r.groups[3], r.groups[5]} ELSE {}))

\* the variable that a line assigns
Defines(l) ==
    LET v == VariableCaptures(l)
    IN  IF v.matched THEN {v.groups[1]} ELSE {}

\* line k of the script uses a variable that no earlier line assigns
UsesUnassigned(k) ==
    ~(Uses(lines[k]) \subseteq UNION {Defines(lines[j]) : j \in 1..(k - 1)})

\* C7: when some assignment or declaration of the script uses a variable that
\* no earlier line assigns, from_file returns an error and no region list, not
\* even the regions declared before that line.
C7_UnassignedVariableAborts ==
    (ldPc = "returned" /\ \E k \in 1..Len(lines) : UsesUnassigned(k)) =>
        ldResult = [tag |-> "Err", regions |-> <<>>]

C7_Witness ==
    /\ ldPc = "returned"
    /\ ldResult.tag = "Err"
    /\ Len(regions) >= 1
    /\ \E k \in 2..Len(lines) :
           /\ UsesUnassigned(k)
           /\ \A j \in 1..(k - 1) : ~UsesUnassigned(j)
           /\ lines[k - 1] = D_ram

\* the declarations whose value is an arithmetic expression or a cross-reference
ExpressionLines == {D_sum, D_xref1, D_xref}

\* C8: a declaration line whose ORIGIN or LENGTH value is an arithmetic
\* expression or a cross-reference does not match: a script of such lines
\* yields no region and no error.
C8_ExpressionsDoNotMatch ==
    (ldPc = "returned" /\ ldFile.readable
         /\ \A k \in 1..Len(lines) : lines[k] \in ExpressionLines) =>
        ldResult = OkRegions(<<>>)

(***************************************************************************)
(* parse_value and parse_region: properties (SpecDecl)                     *)
(***************************************************************************)
\* C6: a value word that is the name of an assigned variable resolves to the
\* value assigned to it, however the name is spelled.
C6_AssignedNameResolves ==
    (dcPc \in {"value", "forward", "done"} /\ dcA \in DOMAIN dcVars) =>
        dcValue.tag = "Ok" /\ dcValue.val = dcVars[dcA]

\* what the well-formed literals denote
LiteralValue ==
    (w0x10000 :> 65536 @@ w0x1F :> 31 @@ w0x1000 :> 4096 @@ w0x8000000 :> 134217728
        @@ w0x20000000 :> 536870912 @@ w0 :> 0 @@ w12 :> 12 @@ w007 :> 7
        @@ w8K :> 8192 @@ w10K :> 10240 @@ w32K :> 32768 @@ w1M :> 1048576)

\* the malformed literals: no hex digits, no decimal digits, a letter among them
MalformedLiterals == {w0xZZ, w0x, w12aK, wK}

\* C9: parse_value gives the hexadecimal value of `0x` and hex digits, the
\* decimal value of decimal digits, n * 1024 for n and `K`, n * 1024 * 1024 for
\* n and `M`, whenever the result fits the word, and an error for a malformed
\* literal.
C9_LiteralValues ==
    dcPc \in {"value", "forward", "done"} =>
        /\ dcA \in DOMAIN LiteralValue =>
               dcValue.tag = "Ok" /\ dcValue.val = LiteralValue[dcA]
        /\ dcA \in MalformedLiterals => dcValue.tag = "Err"

C9_Witness ==
    /\ dcPc = "value"
    /\ dcA = w8K
    /\ dcValue.tag = "Ok"
    /\ dcValue.val = 8192

\* C10: `RAM : LENGTH = b, ORIGIN = a` yields the same region as
\* `RAM : ORIGIN = a, LENGTH = b`: when either yields a region so does the
\* other and the two are equal, and for literals a and b it is the region RAM
\* with origin a and length b.
C10_SwappedSameRegion ==
    dcPc = "done" =>
        /\ (dcFwd.tag = "Ok" \/ dcSwp.tag = "Ok") =>
               dcFwd.tag = dcSwp.tag /\ dcFwd.val = dcSwp.val
        /\ (dcA \in DOMAIN LiteralValue /\ dcB \in DOMAIN LiteralValue) =>
               /\ dcSwp.tag = "Ok"
               /\ dcSwp.val = NewRegion(wRAM, LiteralValue[dcA], LiteralValue[dcB])

C10_Witness ==
    /\ dcPc = "done"
    /\ dcSwp.tag = "Ok"
    /\ dcFwd.tag = "Ok"
    /\ dcSwp.val = dcFwd.val
    /\ dcSwp.val.origin # dcSwp.val.length
    /\ dcSwp.val.origin = 536870912
    /\ dcSwp.val.length = 8192

(***************************************************************************)
(* use_segments_data: properties (SpecUse)                                 *)
(***************************************************************************)
\* the segments whose start address a satisfies lo <= a <= hi
StartingWithin(lo, hi) ==
    {k \in 1..Len(usSegments) : lo <= usSegments[k].addr /\ usSegments[k].addr <= hi}

RECURSIVE SumOfSizes(_)
\* the sum of the sizes of the segments of S
SumOfSizes(S) ==
    IF S = {} THEN 0
    ELSE usSegments[Min(S)].size + SumOfSizes(S \ {Min(S)})

\* origin + length of every region fits the machine word
EndsFit == \A n \in 1..Len(usRegions) : usRegions[n].origin + usRegions[n].length <= UsizeMax

C12_PercentageOfLength ==
    (usPc = "returned" /\ EndsFit) =>
        /\ usResult.tag = "Ok"
        /\ \A n \in 1..Len(usRegions) :
               /\ usRegions[n].length > 0 =>
                      /\ usResult.val[n].used_percentage.kind = "finite"
                      /\ usResult.val[n].used_percentage.num * usRegions[n].length
                             = usResult.val[n].used_percentage.den
                                   * usResult.val[n].used * 100
               /\ usRegions[n].length = 0 =>
                      usResult.val[n].used_percentage.kind =
                          (IF usResult.val[n].used = 0 THEN "nan" ELSE "inf")

\* length 1000 with used 500 gives 50.0; a region of length 0 holding a
\* segment gives +inf
C12_Witness ==
    /\ usPc = "returned"
    /\ usResult.tag = "Ok"
    /\ \E n \in 1..Len(usRegions) :
           /\ usRegions[n].length = 1000
           /\ usResult.val[n].used = 500
           /\ usResult.val[n].used_percentage = Finite(50, 1)
    /\ \E n \in 1..Len(usRegions) :
           /\ usRegions[n].length = 0
           /\ usResult.val[n].used_percentage.kind \in {"nan", "inf"}

(***************************************************************************)
(* Symbol names: properties (SpecExe, SpecName)                            *)
(***************************************************************************)
\* the raw name of the table entry that symbol k of the model was made from
RawNameOf(k) == file.symbols[exe.symbols[k].entry].name

\* C13: for every retained symbol, the name stored by exe::parse is the name
\* that demangle.rs demangle returns for the raw name: the hash-stripped name
\* when the Rust demangling changes the name, else the C++-demangled name
\* when that succeeds, else the raw name unchanged.
C13_NameIsDemangled ==
    (exePc = "returned" /\ exe.tag = "Ok") =>
        \A k \in 1..Len(exe.symbols) :
            exe.symbols[k].name = DemangledSymbol(RawNameOf(k), "release").name

\* C14: for every retained symbol, the crate name stored by exe::parse is
\* crate_name_from_demangled of the symbol's demangled name; for the method of
\* `impl b::U for a::T` it is `a`.
C14_CrateIsGuessedFromName ==
    (exePc = "returned" /\ exe.tag = "Ok") =>
        \A k \in 1..Len(exe.symbols) :
            exe.symbols[k].crate_name = CrateNameFromDemangled(exe.symbols[k].name)

\* C15: demangling never panics, whatever the input: neither demangle.rs
\* demangle nor exe.rs demangle, also when the last `:` of the name is its
\* first byte.
C15_DemanglingNeverPanics ==
    nmPc = "done" => ~nmSymbol.panic /\ ~nmExe.panic

\* the crate names of the demangled names
ExpectedCrate ==
    (T_path :> <<"c", "o", "r", "e">> @@
        T_impl :> <<"h", "e", "a", "p", "l", "e", "s", "s">> @@
        T_bool :> <<"c", "o", "r", "e">> @@ T_mut :> <<"c", "o", "r", "e">> @@
        T_const :> <<"c", "o", "r", "e">> @@ T_dyn :> <<"a">> @@
        T_short :> <<"a">> @@ T_main :> <<"?">> @@ T_cpp :> <<"?">> @@
        T_colon :> <<"?">>)

Supplied(names) == SelectSeq(rnParsed, LAMBDA a : a.name \in names)

\* the last of them
LastSupplied(names) == Supplied(names)[Len(Supplied(names))]

\* the patterns of the `--output` arguments, in order
OutputPatterns == [k \in 1..Len(Supplied({"output"})) |-> Supplied({"output"})[k].values[1]]

\* the tables that are printed
EnabledTables(out) == {k \in TableKinds : Enabled(out, k)}

\* the tables the command line asks for by itself: its patterns over the
\* defaults, the symbol table when they enable nothing
CommandLineTables ==
    IF EnabledTables(ApplyAll([panic |-> FALSE, out |-> DefaultOutput, before |-> DefaultOutput,
                               pattern |-> NoPattern], OutputPatterns, 1).out) = {}
    THEN {"Symbols"}
    ELSE EnabledTables(ApplyAll([panic |-> FALSE, out |-> DefaultOutput,
                                 before |-> DefaultOutput, pattern |-> NoPattern],
                                OutputPatterns, 1).out)

\* every setting but the tables is the one of the command line
C17_SettingsOverride ==
    rnPc = "ready" =>
        /\ Supplied({"profile"}) # <<>> => rnApp.profile = LastSupplied({"profile"}).values[1]
        /\ Supplied({"file"}) # <<>> => rnApp.file = LastSupplied({"file"}).values[1]
        /\ Supplied({"filter"}) # <<>> => rnApp.filter = LastSupplied({"filter"}).values[1]
        /\ Supplied({"ld-memory-map"}) # <<>> =>
               rnApp.ld_file = LastSupplied({"ld-memory-map"}).values[1]
        /\ Supplied({"asc", "desc"}) # <<>> =>
               rnApp.sort = IF LastSupplied({"asc", "desc"}).name = "asc"
                            THEN "Ascending" ELSE "Descending"
        /\ Supplied({"size-threshold"}) # <<>> =>
               rnApp.size_threshold =
                   <<FromStrRadix(LastSupplied({"size-threshold"}).values[1], 10),
                     FromStrRadix(LastSupplied({"size-threshold"}).values[2], 10)>>
        /\ Supplied({"percentage-threshold"}) # <<>> =>
               rnApp.percentage_threshold =
                   <<ParseF32(LastSupplied({"percentage-threshold"}).values[1]),
                     ParseF32(LastSupplied({"percentage-threshold"}).values[2])>>

\* C17: once the config file and the command line are read, every setting the
\* command line supplies has the command line's value whatever the config file
\* holds, and an `--output` of the command line replaces the `output` list of
\* the config file: the tables printed are those the command line asks for.
C17_CommandLineOverridesConfig ==
    /\ C17_SettingsOverride
    /\ rnPc = "ready" /\ Supplied({"output"}) # <<>> =>
           EnabledTables(rnApp.output) = CommandLineTables

\* the patterns that disable one table, and the table
DisablePatterns ==
    <<"!", "s", "y", "m", "b", "o", "l", "s">> :> "Symbols" @@ <<"!", "s", "e", "c", "t", "i", "o", "n", "s">> :> "Sections" @@ <<"!", "s", "e", "g">> :> "Segments"
        @@ <<"!", "c", "r">> :> "Crates"

\* C19: right after apply_pattern("!K") for a table K, K is not enabled,
\* whatever patterns were applied before, and every other table is enabled
\* as it was and keeps its column mask.
C19_DisableOneTable ==
    rnPc \in {"config", "args", "exited", "panicked"} /\ rnPattern \in DOMAIN DisablePatterns =>
        /\ ~Enabled(rnApp.output, DisablePatterns[rnPattern])
        /\ \A j \in TableKinds \ {DisablePatterns[rnPattern]} :
               /\ Enabled(rnApp.output, j) = Enabled(rnBefore, j)
               /\ rnApp.output.fields[j] = rnBefore.fields[j]

\* `crates=name` in the config file, then `-o sections` and `--output !sections`:
\* the section table was enabled and is not, the crate table and its one
\* column are as they were
C19_Witness ==
    /\ rnPc = "args"
    /\ rnPattern = <<"!", "s", "e", "c", "t", "i", "o", "n", "s">>
    /\ Enabled(rnBefore, "Sections") /\ ~Enabled(rnApp.output, "Sections")
    /\ Enabled(rnApp.output, "Crates") /\ rnApp.output.fields["Crates"] = 1


(***************************************************************************)
(* The tables: columns, rows and percentages                               *)
(***************************************************************************)
\* the titles of the documented columns of each table, the k-th column being
\* the one of bit 2^(k-1)
ColumnTitles ==
    [Symbols  |-> <<<<"S", "i", "z", "e", " ">>, <<"P", "e", "r", "c", "e", "n", "t", "a", "g", "e", " ">>, <<"S", "y", "m", "b", "o", "l", " ", "K", "i", "n", "d", " ">>, <<"C", "r", "a", "t", "e", " ", "N", "a", "m", "e", " ">>, <<"S", "y", "m", "b", "o", "l", " ", "N", "a", "m", "e", " ">>>>,
     Crates   |-> <<<<"C", "r", "a", "t", "e", " ", "N", "a", "m", "e", " ">>, <<"S", "i", "z", "e", " ">>>>,
     Sections |-> <<<<"N", "a", "m", "e", " ">>, <<"A", "d", "d", "r", "e", "s", "s", " ">>, <<"S", "i", "z", "e", " ">>>>,
     Segments |-> <<<<"N", "a", "m", "e", " ">>, <<"A", "d", "d", "r", "e", "s", "s", " ">>, <<"U", "s", "e", "d", " ">>, <<"S", "i", "z", "e", " ">>, <<"P", "e", "r", "c", "e", "n", "t", "a", "g", "e", " ">>>>]

RECURSIVE SelectedTitles(_, _, _)
\* the titles of the columns of the table that are selected, from column k on
SelectedTitles(kind, out, k) ==
    IF k > Len(ColumnTitles[kind]) THEN <<>>
    ELSE (IF FieldEnabled(out, kind, 2 ^ (k - 1)) THEN <<ColumnTitles[kind][k]>> ELSE <<>>)
             \o SelectedTitles(kind, out, k + 1)

\* the table on the screen has the selected columns, every row is as long as
\* the header, and nothing panicked but the reading of a linker script
TableIsWellFormed ==
    /\ dpTable.header = SelectedTitles(dpTable.kind, dpOutput, 1)
    /\ \A k \in 1..Len(dpTable.rows) : Len(dpTable.rows[k]) = Len(dpTable.header)
    /\ dpTable.panic => dpTable.kind = "Segments" /\ dpLd.failed

\* the tables other than the crate table are well formed
C18_OtherTables == dpTable.kind \in {"Symbols", "Sections", "Segments"} => TableIsWellFormed

\* C18: for every table and every selection of its documented columns the
\* header holds exactly the selected columns and every data row has as many
\* columns as the header, so push_row never fails and the table is printed;
\* the crate table selected as `crates=name` or `crates=size` is one of them.
C18_EveryTableIsWellFormed == dpTable.kind # "None" => TableIsWellFormed

\* the combined size of all symbols of the executable
AllSizes == SizeSum(dpExe.symbols, 1)

\* size * 100 / all, in hundredths, to the nearest
PercentOfAll(size, all) ==
    CHOOSE h \in 0..10000 :
        /\ 2 * (h * all - size * 10000) <= all
        /\ 2 * (size * 10000 - h * all) < all

\* the cell that shows it
PercentCell(h) ==
    FormatUsize(h \div 100) \o <<".">> \o ZeroPadded(FormatUsize(h % 100), 2) \o <<"%", " ">>

\* the Percentage column of the symbol table is the second, or the first
\* without the Size column
PercentColumn == IF FieldEnabled(dpOutput, "Symbols", 1) THEN 2 ELSE 1

\* the Percentage of every row is the symbol's share of all symbols
PercentagesAreOfAll ==
    \A k \in 1..Len(dpTable.rows) :
        dpTable.rows[k][PercentColumn] =
            PercentCell(PercentOfAll(Shown(dpExe.symbols, dpFilter)[k].size, AllSizes))

\* with the default filter the Percentage is the share of all symbols
C20_PercentageUnfiltered ==
    dpTable.kind = "Symbols" /\ ~dpTable.panic /\ FieldEnabled(dpOutput, "Symbols", 2)
        /\ dpFilter = <<".", "+">> => PercentagesAreOfAll

\* C20: the Percentage shown for a symbol in the symbol table is its size as a
\* percentage of the combined size of all symbols of the executable, whatever
\* name filter is in effect.
C20_PercentageOfAllSymbols ==
    dpTable.kind = "Symbols" /\ ~dpTable.panic /\ FieldEnabled(dpOutput, "Symbols", 2)
        => PercentagesAreOfAll


(***************************************************************************)
(* demangle.rs demangle: the cut at the last `:`                           *)
(***************************************************************************)
\* the Rust demangling of the name demangle was called with
NativeName == RustcDemangle(nmRaw)

\* the byte index of its last `:`, -1 without one
LastColon == RPosition(NativeName, ":")

\* C21: when the native demangling changes the name and the last `:` of the
\* demangled string is at byte index p >= 1, demangle returns kind Rust and
\* exactly the first p - 1 bytes of the demangled string; where the last
\* separator is `::`, that is the string without its final `::segment`.
C21_CutBeforeLastSeparator ==
    nmPc \in {"demangled", "guessed", "done"} /\ NativeName # nmRaw /\ LastColon >= 1 =>
        /\ ~nmSymbol.panic
        /\ nmSymbol.kind = "Rust"
        /\ nmSymbol.name = SubSeq(NativeName, 1, LastColon - 1)
        /\ NativeName[LastColon] = ":" =>
               nmSymbol.name \o <<":", ":">> \o SubSeq(NativeName, LastColon + 2, Len(NativeName))
                   = NativeName

\* `_ZN1a1b17h0123456789abcdefE` demangles to `a::b::h0123456789abcdef` and
\* demangle returns `a::b`
C21_Witness ==
    /\ nmPc = "demangled"
    /\ nmRaw = NameHashed
    /\ NativeName = <<"a", ":", ":", "b", ":", ":", "h", "0", "1", "2", "3", "4", "5", "6", "7", "8", "9", "a", "b", "c", "d", "e", "f">>
    /\ nmSymbol.kind = "Rust"
    /\ nmSymbol.name = <<"a", ":", ":", "b">>


(***************************************************************************)
(* from_file: the variable table along the lines, and the regions          *)
(***************************************************************************)
\* the lines of the inventory that assign each variable
AssignsOf ==
    (w__boot_size :> {A_boot, A_boot2} @@ w__ROM :> {A_rom} @@ w__slot_size :> {A_slot})

\* the lines that are parsed and name a variable as a value
RefersTo ==
    (w__boot_size :> {A_slot, D_boot} @@ w__ROM :> {D_flash} @@ w__slot_size :> {D_app})

\* the declarations a region is made of
ProducingLines == {D_boot, D_ram, D_flash, D_app, D_sum}

\* the last of the lines 1..n that assigns the variable, 0 without one
LastAssignment(name, n) ==
    IF \E j \in 1..n : lines[j] \in AssignsOf[name]
    THEN Max({j \in 1..n : lines[j] \in AssignsOf[name]})
    ELSE 0

RECURSIVE ValueAt(_)
\* the value the assignment on line j gives its variable
ValueAt(j) ==
    CASE lines[j] = A_boot  -> 65536
      [] lines[j] = A_boot2 -> 4096
      [] lines[j] = A_rom   -> 4096
      [] lines[j] = A_slot  -> ValueAt(LastAssignment(w__boot_size, j - 1))

\* line i is the k-th declaration of the file
IsDeclaration(i, k) ==
    /\ lines[i] \in ProducingLines
    /\ Cardinality({j \in 1..i : lines[j] \in ProducingLines}) = k

\* the length of every region that names a variable is the value most
\* recently assigned above the region's line
LengthsFromAbove(regs) ==
    \A k \in 1..Len(regs) : \E i \in 1..Len(lines) :
        /\ IsDeclaration(i, k)
        /\ \A name \in DOMAIN RefersTo :
               lines[i] \in RefersTo[name] =>
                   /\ LastAssignment(name, i) > 0
                   /\ regs[k].length = ValueAt(LastAssignment(name, i))

\* C22: from_file goes through the lines top to bottom with one variable
\* table: after n lines the table holds, for every variable, the value most
\* recently assigned on the lines 1..n; every region has the value most
\* recently assigned above its own line, whatever is assigned later; and a
\* file in which a line names a variable that no earlier line assigns is an
\* error.
C22_TopToBottom ==
    /\ ldPc = "lines" =>
           \A name \in DOMAIN AssignsOf :
               /\ name \in DOMAIN vars <=> LastAssignment(name, lineNo) > 0
               /\ name \in DOMAIN vars => vars[name] = ValueAt(LastAssignment(name, lineNo))
    /\ ldPc = "lines" => LengthsFromAbove(regions)
    /\ ldPc = "returned" /\ ldResult.tag = "Ok" => LengthsFromAbove(ldResult.regions)
    /\ ldPc = "returned" /\ ldFile.readable
           /\ (\E i \in 1..Len(lines) : \E name \in DOMAIN RefersTo :
                   lines[i] \in RefersTo[name] /\ LastAssignment(name, i - 1) = 0)
           => ldResult.tag = "Err"

\* `__boot_size = 0x10000;`, `__boot_size = 0x1000;`, then BOOTLOADER with
\* LENGTH = __boot_size: the region has the second value
C22_Witness ==
    /\ ldPc = "returned"
    /\ lines = <<A_boot, A_boot2, D_boot>>
    /\ ldResult.tag = "Ok"
    /\ ldResult.regions[1].length = 4096


\* the name and the origin each declaration gives its region
DeclaredName ==
    (D_boot :> wBOOTLOADER @@ D_ram :> wRAM @@ D_flash :> wFLASH @@ D_app :> wAPPLICATION
        @@ D_sum :> wRAM)

DeclaredOrigin ==
    (D_boot :> 134217728 @@ D_ram :> 536870912 @@ D_flash :> 0 @@ D_app :> 134283264
        @@ D_sum :> 536870912)

\* C23: on success from_file returns exactly one MemoryRegion per line that
\* matches the region-declaration pattern, in file order, each with used = 0
\* and used_percentage = 0; assignments and lines that match neither pattern
\* produce no region.
C23_OneRegionPerDeclaration ==
    ldPc = "returned" /\ ldResult.tag = "Ok" =>
        /\ \A i \in 1..Len(lines) :
               MemRegCaptures(lines[i]).matched <=> lines[i] \in ProducingLines
        /\ Len(ldResult.regions)
               = Cardinality({i \in 1..Len(lines) : lines[i] \in ProducingLines})
        /\ \A k \in 1..Len(ldResult.regions) : \E i \in 1..Len(lines) :
               /\ IsDeclaration(i, k)
               /\ ldResult.regions[k].name = DeclaredName[lines[i]]
               /\ ldResult.regions[k].origin = DeclaredOrigin[lines[i]]
               /\ ldResult.regions[k].used = 0
               /\ ldResult.regions[k].used_percentage = 0

\* RAM, an assignment, BOOTLOADER: two regions, RAM first
C23_Witness ==
    /\ ldPc = "returned"
    /\ lines = <<D_ram, A_boot, D_boot>>
    /\ ldResult.tag = "Ok"
    /\ Len(ldResult.regions) = 2
    /\ ldResult.regions[1].name = wRAM
    /\ ldResult.regions[2].name = wBOOTLOADER

(***************************************************************************)
(* C24: what the zero-size repair leaves alone                             *)
(***************************************************************************)
\* the symbols as the repair loop receives them, in a build bld
BeforeRepair(bld) == SortByAddr(Collect(file.symbols, 1, bld))

\* s is the symbol b with at most its size changed, and only from 0
SameButZeroSize(s, b) ==
    /\ s.name = b.name
    /\ s.crate_name = b.crate_name
    /\ s.addr = b.addr
    /\ s.kind = b.kind
    /\ s.entry = b.entry
    /\ b.size # 0 => s.size = b.size

\* the symbols returned are those of `before`, one for one
FrameOf(before) ==
    /\ Len(exe.symbols) = Len(before)
    /\ \A i \in 1..Len(exe.symbols) : SameButZeroSize(exe.symbols[i], before[i])

RepairFrame(bld) == \E before \in {BeforeRepair(bld)} : FrameOf(before)

\* C24: whenever parse returns Ok, its symbols are the symbols the repair loop
\* received, one for one, with the same name, crate name, address and kind, and
\* with the same size wherever that size was not 0; against the file's table,
\* there is one symbol per retained entry, it has the entry's address, and it
\* has the entry's size when the format reported a non-zero one
C24_RepairChangesZeroSizesOnly ==
    exe.tag = "Ok" =>
        /\ \E bld \in Builds : RepairFrame(bld)
        /\ Len(exe.symbols) = Cardinality(RetainedEntries)
        /\ {exe.symbols[i].entry : i \in 1..Len(exe.symbols)} = RetainedEntries
        /\ \A i \in 1..Len(exe.symbols) :
               /\ exe.symbols[i].addr = file.symbols[exe.symbols[i].entry].addr
               /\ file.symbols[exe.symbols[i].entry].size # 0
                      => exe.symbols[i].size = file.symbols[exe.symbols[i].entry].size

\* a zero-size function at 0 is repaired to 2, the sized one at 2 keeps its
\* size, and the label between them is dropped
C24_Witness ==
    /\ exe.tag = "Ok"
    /\ file.symbols = << [name |-> NamePlain, size |-> 0, addr |-> 0, kind |-> "Text"],
                         [name |-> NamePlain, size |-> 0, addr |-> 1, kind |-> "Label"],
                         [name |-> NamePlain, size |-> ReportedSize, addr |-> 2, kind |-> "Data"] >>
    /\ Len(exe.symbols) = 2
    /\ exe.symbols[1].size = 2
    /\ exe.symbols[2].size = ReportedSize
    /\ exe.symbols[2].kind = "Data"

(***************************************************************************)
(* C25: use_segments_data adds onto `used` (SpecUse)                       *)
(***************************************************************************)
\* the containment sum of region n: the sizes of the segments that start
\* within its bounds
ContainmentSum(n) ==
    SumOfSizes(StartingWithin(usRegions[n].origin, usRegions[n].origin + usRegions[n].length))

\* C25: after a second use_segments_data with the same segments, on regions
\* whose ends fit the machine word, each region's used is twice its
\* containment sum (the first call, on used = 0, left the sum itself), so the
\* second call changes used wherever the sum is not 0; name, origin and length
\* of every region are those from_file gave.
C25_SecondCallAddsAgain ==
    (usPc = "again" /\ EndsFit) =>
        /\ usResult.tag = "Ok"
        /\ Len(usResult.val) = Len(usRegions)
        /\ \A n \in 1..Len(usRegions) :
               /\ usResult.val[n].name = usRegions[n].name
               /\ usResult.val[n].origin = usRegions[n].origin
               /\ usResult.val[n].length = usRegions[n].length
               /\ usResult.val[n].used = 2 * ContainmentSum(n)
               /\ (usResult.val[n].used = ContainmentSum(n)) <=> (ContainmentSum(n) = 0)

\* the region 0..200 with segments of sizes 1 and 2 inside it: 3 after the
\* first call, 6 after the second
C25_Witness ==
    /\ usPc = "again"
    /\ usResult.tag = "Ok"
    /\ Len(usRegions) = 1
    /\ usRegions[1].origin = 0 /\ usRegions[1].length = 200
    /\ usSegments = <<[addr |-> 0, size |-> 1], [addr |-> 99, size |-> 2]>>
    /\ usResult.val[1].used = 6

(***************************************************************************)
(* C26: a declaration with an unknown key (SpecLink)                       *)
(***************************************************************************)
\* the declarations whose first or second key is neither ORIGIN nor LENGTH
UnknownKeyLines == {D_start, D_size}

\* C26: a readable script that holds a line of the declaration shape whose
\* first or second key is a word other than ORIGIN and LENGTH makes from_file
\* return an error and no regions, whatever the other lines are; the line is
\* not passed over.
C26_UnknownKeyIsAnError ==
    (ldPc = "returned" /\ ldFile.readable
        /\ \E i \in 1..Len(lines) : lines[i] \in UnknownKeyLines) =>
        /\ ldResult.tag = "Err"
        /\ ldResult.regions = <<>>
        /\ lineNo <= Min({i \in 1..Len(lines) : lines[i] \in UnknownKeyLines})

\* a good declaration, then one with SIZE for LENGTH: the error comes at the
\* second line and the first line's region is not returned
C26_Witness ==
    /\ ldPc = "returned"
    /\ lines = <<D_ram, D_size>>
    /\ lineNo = 2
    /\ regions = <<NewRegion(wRAM, 536870912, 8192)>>
    /\ ldResult.tag = "Err"
    /\ ldResult.regions = <<>>

\* the same with START for ORIGIN
C26_WitnessFirstKey ==
    /\ ldPc = "returned"
    /\ lines = <<D_start>>
    /\ ldResult.tag = "Err"

(***************************************************************************)
(* C27: the upper bound origin + length (SpecUse)                          *)
(***************************************************************************)
\* C27 (refuted): for every list of parsed regions MemoryRegion::bounds gives
\* origin + length itself, with no panic and no wrap-around, and
\* use_segments_data returns.
C27_BoundsNeverOverflow ==
    usPc = "returned" =>
        /\ usResult.tag = "Ok"
        /\ \A n \in 1..Len(usRegions) :
               Bounds(usRegions[n], usBuild).end
                   = [panic |-> FALSE, val |-> usRegions[n].origin + usRegions[n].length]

\* a debug build panics in bounds() for a region that ends past the last address
C27_PanicInDebug ==
    /\ usPc = "returned"
    /\ usBuild = "debug"
    /\ usResult.tag = "Panic"
    /\ \E n \in 1..Len(usRegions) : usRegions[n].origin + usRegions[n].length > UsizeMax

\* a release build wraps the end below the origin: the segment inside the
\* region is not counted
C27_WrapInRelease ==
    /\ usPc = "returned"
    /\ usBuild = "release"
    /\ usResult.tag = "Ok"
    /\ Len(usRegions) = 1
    /\ usRegions[1].origin = UsizeMax - 99 /\ usRegions[1].length = 200
    /\ usSegments = <<[addr |-> UsizeMax - 50, size |-> 64]>>
    /\ Bounds(usRegions[1], usBuild).end.val = 100
    /\ usResult.val[1].used = 0

(***************************************************************************)
(* C28: an enabling pattern without a column list (SpecRun)                *)
(***************************************************************************)
\* the enabling patterns without a column list, and the tables each enables
EnablingPatterns ==
    <<"s", "y", "m", "b", "o", "l", "s">> :> {"Symbols"} @@ <<"s", "e", "c", "t", "i", "o", "n", "s">> :> {"Sections"} @@ <<"s", "e", "g", "m", "e", "n", "t", "s">> :> {"Segments"}
        @@ <<"a", "l", "l">> :> TableKinds

\* the bits of the columns of each table
ColumnBits ==
    "Symbols" :> {1, 2, 4, 8, 16} @@ "Sections" :> {1, 2, 4} @@ "Segments" :> {1, 2, 4, 8, 16}
        @@ "Crates" :> {1, 2}

AllColumnsEnabled(out, kind) ==
    \A bit \in ColumnBits[kind] : FieldEnabled(out, kind, bit)

\* C28 (refuted): right after apply_pattern with an enabling pattern that has
\* no column list, every table the pattern enables is enabled with every one
\* of its columns, whatever patterns were applied before.
C28_EnablingEnablesEveryColumn ==
    rnPc \in {"config", "args", "exited", "panicked"} /\ rnPattern \in DOMAIN EnablingPatterns =>
        \A kind \in EnablingPatterns[rnPattern] :
            /\ Enabled(rnApp.output, kind)
            /\ AllColumnsEnabled(rnApp.output, kind)

\* the same for a pattern that names one table: it holds
C28_TableNameEnablesEveryColumn ==
    rnPc \in {"config", "args", "exited", "panicked"}
        /\ rnPattern \in DOMAIN EnablingPatterns /\ rnPattern # <<"a", "l", "l">> =>
        \A kind \in EnablingPatterns[rnPattern] :
            /\ Enabled(rnApp.output, kind)
            /\ rnApp.output.fields[kind] = 255

\* `--output !sections` then `-o sections`: the mask 0 is back at 255
C28_TableNameResets ==
    /\ rnPc = "args"
    /\ rnPattern = <<"s", "e", "c", "t", "i", "o", "n", "s">>
    /\ rnBefore.fields["Sections"] = 0
    /\ rnApp.output.fields["Sections"] = 255

\* `output = ["!symbols", "all"]` in the config file: the symbol table is
\* enabled and none of its columns is
C28_AllKeepsMasks ==
    /\ rnPc = "config"
    /\ rnPattern = <<"a", "l", "l">>
    /\ rnBefore.fields["Symbols"] = 0
    /\ Enabled(rnApp.output, "Symbols")
    /\ \A bit \in ColumnBits["Symbols"] : ~FieldEnabled(rnApp.output, "Symbols", bit)

(***************************************************************************)
(* C29: the comparison of sort_symbols (SpecDump)                          *)
(***************************************************************************)
\* Ordering::reverse
Reverse(o) == CASE o = "Less" -> "Greater" [] o = "Greater" -> "Less" [] OTHER -> "Equal"

\* the symbol table was printed, so sort_symbols has run with an order
SymbolsSorted == dpTable.kind = "Symbols" /\ dpPc \in {"crates", "panicked"} /\ dpSort # "None"

\* the sizes are in the order asked for
InOrder(symbols, order) ==
    \A i \in 1..(Len(symbols) - 1) :
        IF order = "Ascending" THEN symbols[i].size <= symbols[i + 1].size
        ELSE symbols[i].size >= symbols[i + 1].size

\* symbols is one of the lists of the inventory, rearranged
Rearranged(symbols) ==
    /\ \A i, j \in 1..Len(symbols) : i # j => symbols[i] # symbols[j]
    /\ \E l \in DumpSymbolLists :
           /\ Len(l) = Len(symbols)
           /\ {l[i] : i \in 1..Len(l)} = {symbols[i] : i \in 1..Len(symbols)}

\* the comparison on the symbols at two places of the list
ComparisonIsConsistent(symbols, order) ==
    \A i, j \in 1..Len(symbols) :
        i # j =>
            /\ symbols[i].size = symbols[j].size => Compare(order, symbols[i], symbols[j]) = "Equal"
            /\ Compare(order, symbols[i], symbols[j])
                   = Reverse(Compare(order, symbols[j], symbols[i]))

\* C29 (refuted): the comparison sort_symbols hands to the sort reports Equal
\* for two symbols of equal size and compare(a, b) is the reverse of
\* compare(b, a); after sort_symbols the sizes are in the order asked for and
\* the symbols are those before, rearranged.
C29_ConsistentTotalOrder ==
    SymbolsSorted =>
        /\ ComparisonIsConsistent(dpExe.symbols, dpSort)
        /\ InOrder(dpExe.symbols, dpSort)
        /\ Rearranged(dpExe.symbols)

\* the part about the outcome, on the short lists of the inventory: it holds
C29_SortedRearrangement ==
    SymbolsSorted => InOrder(dpExe.symbols, dpSort) /\ Rearranged(dpExe.symbols)

\* for symbols of different sizes the comparison is consistent
C29_DistinctSizesAreConsistent ==
    SymbolsSorted =>
        \A i, j \in 1..Len(dpExe.symbols) :
            dpExe.symbols[i].size # dpExe.symbols[j].size =>
                Compare(dpSort, dpExe.symbols[i], dpExe.symbols[j])
                    = Reverse(Compare(dpSort, dpExe.symbols[j], dpExe.symbols[i]))

\* main and core::fmt::write, of 100 bytes each: Greater both ways
C29_GreaterBothWays ==
    /\ SymbolsSorted
    /\ dpExe.symbols = <<SymBuf, SymMain, SymWrite>>
    /\ dpSort = "Descending"
    /\ Compare(dpSort, SymMain, SymWrite) = "Greater"
    /\ Compare(dpSort, SymWrite, SymMain) = "Greater"

(***************************************************************************)
(* C30: trimming a column to the remaining width (SpecTable)               *)
(***************************************************************************)
\* C30 (refuted): a row with the header's column count is appended by push_row,
\* which returns Ok, and the trimming never underflows: no cached width comes
\* to exceed max_width.
C30_PushRowNeverUnderflows ==
    (tbPc \in {"once", "twice"} /\ Len(tbRow) = Len(tbHeader)) =>
        /\ tbResult = "Ok"
        /\ tbTable.rows # <<>> /\ tbTable.rows[Len(tbTable.rows)] = tbRow
        /\ \A i \in 1..Len(tbTable.widths) : tbTable.widths[i] <= tbTable.max_width

\* a row that fits the width is appended
C30_FittingRowIsPushed ==
    (tbPc = "once" /\ Len(tbRow) = Len(tbHeader) /\ tbMax = 0) =>
        /\ tbResult = "Ok"
        /\ tbTable.rows = <<tbRow>>

\* max_width 4, the row (5 characters, 1 character): the first column is
\* trimmed to 3 and fills the width, the second computes 4 - 4 - 1; a build
\* with overflow checks panics
C30_PanicInDebug ==
    /\ tbPc = "once"
    /\ tbBuild = "debug"
    /\ tbMax = 4
    /\ tbHeader = <<Cell(2), Cell(2)>>
    /\ tbRow = <<Cell(5), Cell(1)>>
    /\ tbResult = "Panic"

\* a build without them wraps the width of the second column
C30_WrapInRelease ==
    /\ tbPc = "once"
    /\ tbBuild = "release"
    /\ tbMax = 4
    /\ tbHeader = <<Cell(2), Cell(2)>>
    /\ tbRow = <<Cell(5), Cell(1)>>
    /\ tbResult = "Ok"
    /\ tbTable.widths[2] = UsizeMax

====
